---------------------------- MODULE Spec2Model ----------------------------
(***************************************************************************)
(* State-machine model of the full-node protocol orchestration layer       *)
(* (tad/full_node/full_node_api.py) and of the farmer's pool-state refresh *)
(* loop (tad/farmer/farmer.py).                                            *)
(*                                                                         *)
(* Every handler is one action per stretch of code between two suspension  *)
(* points (await); the asyncio scheduler runs one such stretch at a time.  *)
(***************************************************************************)
EXTENDS Integers, Sequences, FiniteSets, TLC

(***************************************************************************)
(* Bounds of the model.                                                    *)
(***************************************************************************)
NumPeers == 2
MaxHist == 3
MaxIndex == 2
MaxErrors == 2
MaxAdvances == 2
MaxChain == 12
MaxMatching == 2
MaxTsChain == 3
MaxTime == 5
\* The most subscriptions of one peer (100000 in the program) and the longest
\* list of one registration request.
MaxSubscriptions == 2
MaxRequestLen == 2
\* The tips kept in pow_creation (4 in the program) and the events created in a run.
PowCacheLimit == 2
MaxEvents == 3

Peers == 1..NumPeers

\* One transaction id: every handler reads and writes only the entries of the
\* id it is called with.  Two task ids: the fewest that let two fetch tasks be
\* alive at once.
TxIds == {"T"}
TaskIds == {1, 2}

(***************************************************************************)
(* Program constants.                                                      *)
(***************************************************************************)
TxMaxRounds == 10
GENESIS_CHALLENGE == 0
MaxBackfillRequests == 30
MaxNonEmptySubSlots == 3
MaxWalkAttempts == 10
UPDATE_POOL_INFO_INTERVAL == 3600
UnmarkDelay == 5
MaxCvWaiters == 20
CompactVdfSemValue == 1
UPDATE_POOL_FARMER_INFO_INTERVAL == 300
UPDATE_HARVESTER_CACHE_INTERVAL == 60
StartTime == 1000

VARIABLES
    \* ---- transaction gossip (FullNodeAPI.new_transaction / respond_transaction)
    sync_mode,            \* full_node.sync_store.get_sync_mode()
    synced,               \* full_node.synced()
    seen,                 \* ids for which mempool_manager.seen(id) is true
    all_connections,      \* full_node.server.all_connections (peer ids)
    pending_tx_request,   \* full_node_store.pending_tx_request : id -> peer
    peers_with_tx,        \* full_node_store.peers_with_tx : id -> set of peers
    tx_fetch_tasks,       \* full_node_store.tx_fetch_tasks (task ids registered)
    tasks,                \* the asyncio tasks running tx_request_and_timeout that are not done
    hist,                 \* per id: accepted advertisements, requests sent, responses (observation)
    last_adv,             \* the NewTransaction handled by the last step, if it was one (observation)
    \* ---- signage points (FullNodeAPI.respond_signage_point)
    sub_slots,            \* challenge hashes whose sub-slot full_node_store.get_sub_slot finds
    sp_store,             \* full_node_store signage points: <<challenge, index>> -> SignagePoint
    timelord_lock,        \* full_node.timelord_lock: its holder, or "free"
    rsp,                  \* the respond_signage_point call in progress; once it has returned
                          \* without adding, the request it dropped (observation)
    sp_inserts,           \* parity of the number of new_signage_point calls (observation)
    ipv,                  \* the new_infusion_point_vdf call in progress
    \* ---- sub-slot backfill (FullNodeAPI.new_signage_point_or_end_of_sub_slot)
    bf,                   \* the new_signage_point_or_end_of_sub_slot call in progress
    \* ---- candidate blocks (FullNodeAPI.declare_proof_of_space / signed_values)
    candidate_blocks,         \* full_node_store candidates: quality string -> unfinished block
    candidate_backup_blocks,  \* full_node_store backup candidates: quality string -> unfinished block
    dps,                  \* the declare_proof_of_space call in progress; once it has returned
                          \* without a candidate, the request it dropped (observation)
    sv,                   \* the signed_values call in progress
    rsv_sent,             \* parity of the number of RequestSignedValues sent (observation)
    \* ---- pool state refresh (Farmer.update_pool_state)
    now,                  \* time.time()
    advances,             \* how many times the clock has been moved on
    error_times,          \* pool -> the time at which the oldest entry of its
                          \* pool_errors_24h was appended, if it has one (observation)
    rpc_last,             \* the last read-only RPC operation of the farmer (observation)
    pool_state,           \* Farmer.pool_state: pool -> its PoolState fields
    ups,                  \* the update_pool_state call in progress; get_farmer is, per pool, the
                          \* outcome of its last GET /farmer in this run (observation)
    \* ---- unfinished blocks (FullNodeAPI.new_unfinished_block)
    unfinished_blocks,    \* hashes for which full_node_store.get_unfinished_block finds a block
    requesting_unfinished_blocks,  \* full_node_store.requesting_unfinished_blocks
    ub_timers,            \* the eventually_clear tasks asleep: hash and seconds left to sleep
    ub_last,              \* the last new_unfinished_block call: its hash, whether it returned
                          \* a request, and the parity of the number of calls (observation)
    \* ---- compact VDFs (FullNodeAPI.new_compact_vdf)
    compact_vdf_requests, \* full_node.compact_vdf_requests
    sem_value,            \* compact_vdf_sem._value
    sem_waiters,          \* compact_vdf_sem._waiters: the pending futures of each kind of
                          \* message and the cancelled futures not yet popped
    cv_woken,             \* handlers whose future has a result and that have not run since
    cv_processing,        \* handlers inside full_node.new_compact_vdf
    cv_last,              \* what became of the last message that arrived (observation)
    \* ---- end of sub slot (respond_end_of_sub_slot, new_end_of_sub_slot_vdf)
    eos,                  \* the handler under way or the last one that ran: its bundle,
                          \* whether the bundle was added and what it returned
    peaks_to_timelord,    \* parity of the number of send_peak_to_timelords calls
    \* ---- harvester cache (Farmer.update_cached_harvesters)
    harvester_connections,  \* server.get_connections(NodeType.HARVESTER)
    harvester_cache,      \* Farmer.harvester_cache: host -> node id -> HarvesterCacheEntry
    uch,                  \* the update_cached_harvesters call in progress
    \* ---- plot refresh (PlotManager.refresh_batch)
    disk,                 \* the plot files that exist: <<directory, filename>>
    plot_directories,     \* the plot directories of the configuration
    plots,                \* PlotManager.plots: the paths of the loaded plots
    modified,             \* loaded plots whose file has another st_mtime than when loaded
    plot_filename_paths,  \* PlotManager.plot_filename_paths
    failed_to_open_filenames,  \* PlotManager.failed_to_open_filenames (the paths)
    pm_lock,              \* PlotManager._lock: its holder, or "free"
    rb,                   \* the _refresh_task thread: its snapshot of the plot files and
                          \* the refresh_batch call in progress
    plot_count_last,      \* what the last plot_count call returned (observation)
    \* ---- block records (FullNodeAPI.declare_proof_of_space)
    blockchain,           \* the block records from height 0 to the peak
    assembled,            \* the locals of the last assembly: the reward-chain challenge,
                          \* what the walk found and the timestamp (observation)
    \* ---- wallet subscriptions (FullNodeAPI.register_interest_in_*)
    ph_subscriptions,     \* full_node.ph_subscriptions : puzzle hash -> set of peers
    coin_subscriptions,   \* full_node.coin_subscriptions : coin id -> set of peers
    peer_puzzle_hash,     \* full_node.peer_puzzle_hash : peer -> set of puzzle hashes
    peer_coin_ids,        \* full_node.peer_coin_ids : peer -> set of coin ids
    peer_sub_counter,     \* full_node.peer_sub_counter : peer -> number of subscriptions
    riph,                 \* per peer: the register_interest_in_puzzle_hash call in progress
    \* ---- weight proofs (FullNodeAPI.request_proof_of_weight)
    pow_creation,         \* full_node.pow_creation : the cached tips in insertion order,
                          \* each with its asyncio.Event
    events,               \* the asyncio.Event objects created so far: set or not
    serialized_wp_message_tip,
                          \* full_node_store.serialized_wp_message_tip
    pow                   \* per call: where it stands, its tip and its event

txVars == <<sync_mode, synced, seen, all_connections, pending_tx_request,
            peers_with_tx, tx_fetch_tasks, tasks, hist, last_adv>>

spVars == <<sub_slots, sp_store, timelord_lock, rsp, sp_inserts, ipv>>

bfVars == <<bf>>

cbVars == <<candidate_blocks, candidate_backup_blocks, dps, sv, rsv_sent>>

poolVars == <<now, advances, error_times, rpc_last, pool_state, ups>>

ubVars == <<unfinished_blocks, requesting_unfinished_blocks, ub_timers, ub_last>>

cvVars == <<compact_vdf_requests, sem_value, sem_waiters, cv_woken, cv_processing, cv_last>>

eosVars == <<eos, peaks_to_timelord>>

hcVars == <<harvester_connections, harvester_cache, uch>>

bcVars == <<blockchain, assembled>>

subVars == <<ph_subscriptions, coin_subscriptions, peer_puzzle_hash, peer_coin_ids,
             peer_sub_counter, riph>>

powVars == <<pow_creation, events, serialized_wp_message_tip, pow>>

pmVars == <<disk, plot_directories, plots, modified, plot_filename_paths,
            failed_to_open_filenames, pm_lock, rb, plot_count_last>>

vars == <<txVars, spVars, bfVars, cbVars, poolVars, ubVars, cvVars, eosVars, hcVars, pmVars,
          bcVars, subVars, powVars>>

\* What the handlers of one part leave alone: the state of the other parts.
notTx == <<eosVars, cvVars, spVars, bfVars, cbVars, poolVars, ubVars, hcVars, pmVars, bcVars, subVars, powVars>>
notSp == <<eosVars, cvVars, txVars, bfVars, cbVars, poolVars, ubVars, hcVars, pmVars, bcVars, subVars, powVars>>
notBf == <<eosVars, cvVars, txVars, sp_store, timelord_lock, rsp, sp_inserts, ipv, cbVars, poolVars, ubVars, hcVars, pmVars, bcVars, subVars, powVars>>
notCb == <<eosVars, cvVars, txVars, sub_slots, sp_store, rsp, sp_inserts, ipv, bfVars, poolVars, ubVars, hcVars, pmVars, bcVars, subVars, powVars>>
\* What the assembly of a candidate on a block chain leaves alone.
notDps == <<eosVars, cvVars, txVars, sub_slots, sp_store, rsp, sp_inserts, ipv, bfVars, poolVars,
            ubVars, hcVars, pmVars, subVars, powVars>>
notPool == <<eosVars, cvVars, txVars, spVars, bfVars, cbVars, ubVars, hcVars, pmVars, bcVars, subVars, powVars>>
notUb == <<txVars, spVars, bfVars, cbVars, poolVars, cvVars, eosVars, hcVars, pmVars, bcVars, subVars, powVars>>
notCv == <<txVars, spVars, bfVars, cbVars, poolVars, ubVars, eosVars, hcVars, pmVars, bcVars, subVars, powVars>>
notEos == <<txVars, sp_store, timelord_lock, rsp, sp_inserts, ipv, bfVars, cbVars, poolVars,
            ubVars, cvVars, hcVars, pmVars, bcVars, subVars, powVars>>
notHc == <<txVars, spVars, bfVars, cbVars, ubVars, cvVars, eosVars, pmVars, bcVars, subVars, powVars>>
notPm == <<txVars, spVars, bfVars, cbVars, poolVars, ubVars, cvVars, eosVars, hcVars, bcVars, subVars, powVars>>
notSub == <<txVars, spVars, bfVars, cbVars, poolVars, ubVars, cvVars, eosVars, hcVars, pmVars,
           bcVars, powVars>>
notPow == <<txVars, spVars, bfVars, cbVars, poolVars, ubVars, cvVars, eosVars, hcVars, pmVars,
           bcVars, subVars>>

(***************************************************************************)
(* Helpers on dictionaries (functions with a varying domain).              *)
(***************************************************************************)
DictPop(d, k) == [x \in (DOMAIN d) \ {k} |-> d[x]]

DictSet(d, k, v) == [x \in (DOMAIN d) \cup {k} |-> IF x = k THEN v ELSE d[x]]

(***************************************************************************)
(* Observation log: what happened for an id, in order, exact up to MaxHist *)
(* events and Overflow afterwards.                                         *)
(***************************************************************************)
Overflow == <<[e |-> "overflow", p |-> 0]>>

Log(h, ev) ==
    IF h = Overflow THEN Overflow
    ELSE IF Len(h) < MaxHist THEN Append(h, ev)
    ELSE Overflow

NoAdv == [peer |-> 0, tx |-> "", fee_enough |-> FALSE]

Adv(p) == [e |-> "adv", p |-> p]
Sent(p) == [e |-> "send", p |-> p]
Resp == [e |-> "resp", p |-> 0]

(***************************************************************************)
(* token_bytes(): a fresh task id.  The least id that names no live task   *)
(* and no registry entry stands for it.                                    *)
(***************************************************************************)
UsedTaskIds == (DOMAIN tasks) \cup tx_fetch_tasks

FreshTaskId == CHOOSE k \in TaskIds \ UsedTaskIds : \A j \in TaskIds \ UsedTaskIds : k <= j

(***************************************************************************)
(* The finally block of tx_request_and_timeout, then the end of the task.  *)
(***************************************************************************)
TxCleanup(k, t, pw) ==
    /\ peers_with_tx' = DictPop(pw, t)
    /\ pending_tx_request' = DictPop(pending_tx_request, t)
    /\ tx_fetch_tasks' = tx_fetch_tasks \ {k}
    /\ tasks' = DictPop(tasks, k)

(***************************************************************************)
(* FullNodeAPI.new_transaction: the whole handler (it has no suspension    *)
(* point that yields).  fee_enough is mempool_manager.is_fee_enough(fees,  *)
(* cost) for the advertised fees and cost.                                 *)
(***************************************************************************)
NewTxIgnoredFeeUnchecked(t, fee_enough) ==
    sync_mode \/ ~synced \/ t \in seen

\* The early returns of new_transaction.
NewTxIgnored(t, fee_enough) ==
    sync_mode \/ ~synced \/ t \in seen \/ ~fee_enough

JoinFanOutForgetsPeer(peer, t) ==
    IF t \in DOMAIN peers_with_tx THEN peers_with_tx ELSE DictSet(peers_with_tx, t, {})

\* A request for t is pending: the peer joins the set of peers that have it.
JoinFanOut(peer, t) ==
    IF t \in DOMAIN peers_with_tx
    THEN [peers_with_tx EXCEPT ![t] = @ \cup {peer}]
    ELSE DictSet(peers_with_tx, t, {peer})

new_transaction(peer, t, fee_enough) ==
    /\ peer \in all_connections
    /\ last_adv' = [peer |-> peer, tx |-> t, fee_enough |-> fee_enough]
    /\ UNCHANGED notTx
    /\ UNCHANGED <<sync_mode, synced, seen, all_connections>>
    /\ IF NewTxIgnored(t, fee_enough)
       THEN UNCHANGED <<pending_tx_request, peers_with_tx, tx_fetch_tasks, tasks, hist>>
       ELSE IF t \in DOMAIN pending_tx_request
       THEN /\ peers_with_tx' = JoinFanOut(peer, t)
            /\ hist' = [hist EXCEPT ![t] = Log(@, Adv(peer))]
            /\ UNCHANGED <<pending_tx_request, tx_fetch_tasks, tasks>>
       ELSE /\ TaskIds \ UsedTaskIds # {}
            /\ pending_tx_request' = DictSet(pending_tx_request, t, peer)
            /\ peers_with_tx' = DictSet(peers_with_tx, t, {peer})
            /\ tasks' = DictSet(tasks, FreshTaskId,
                                [tx |-> t, st |-> "created", counter |-> 0])
            /\ tx_fetch_tasks' = tx_fetch_tasks \cup {FreshTaskId}
            /\ hist' = [hist EXCEPT ![t] = Log(@, Adv(peer))]

(***************************************************************************)
(* One run of tx_request_and_timeout from where it is suspended (not yet   *)
(* started, or in send_message / sleep(5)) to its next suspension or end.  *)
(* `continue` on a peer that is no longer connected has no suspension      *)
(* point, so the pops of disconnected peers belong to the same run; set    *)
(* .pop() removes an arbitrary element.                                    *)
(***************************************************************************)
TxBreaksWhateverIsSeen(st, t, c) ==
    \/ c = TxMaxRounds
    \/ t \notin DOMAIN peers_with_tx
    \/ peers_with_tx[t] = {}

\* The breaks of the loop: the transaction is seen after the sleep, ten
\* requests were sent, or no peer that has the transaction is left.
TxBreaks(st, t, c) ==
    \/ (st = "sleeping" /\ t \in seen)
    \/ c = TxMaxRounds
    \/ t \notin DOMAIN peers_with_tx
    \/ peers_with_tx[t] = {}

tx_request_and_timeout(k) ==
    /\ k \in DOMAIN tasks
    /\ last_adv' = NoAdv
    /\ UNCHANGED notTx
    /\ UNCHANGED <<sync_mode, synced, seen, all_connections>>
    /\ LET tk == tasks[k]
           t == tk.tx
           c == IF tk.st = "sleeping" THEN tk.counter + 1 ELSE tk.counter
       IN  IF TxBreaks(tk.st, t, c)
           THEN /\ TxCleanup(k, t, peers_with_tx)
                /\ UNCHANGED hist
           ELSE LET cur == peers_with_tx[t]
                    gone == cur \ all_connections
                IN  \/ /\ cur \subseteq gone
                       \* every advertiser has disconnected: all are popped, then break
                       /\ TxCleanup(k, t, peers_with_tx)
                       /\ UNCHANGED hist
                    \/ \E p \in cur \cap all_connections, D \in SUBSET gone :
                          \/ /\ peers_with_tx' = [peers_with_tx EXCEPT ![t] = cur \ (D \cup {p})]
                             /\ tasks' = [tasks EXCEPT ![k] =
                                            [tx |-> t, st |-> "sleeping", counter |-> c]]
                             /\ hist' = [hist EXCEPT ![t] = Log(@, Sent(p))]
                             /\ UNCHANGED <<pending_tx_request, tx_fetch_tasks>>
                          \/ \* peer.send_message raises: finally runs, the task ends
                             /\ TxCleanup(k, t, peers_with_tx)
                             /\ UNCHANGED hist

(***************************************************************************)
(* External cancellation of a registered fetch task (Task.cancel()).  A    *)
(* task suspended in send_message or sleep gets CancelledError there:      *)
(* except, then finally.  A task that has not started yet never enters its *)
(* body: the coroutine is thrown CancelledError before the try statement.  *)
(***************************************************************************)
cancel_fetch_task(k) ==
    /\ k \in tx_fetch_tasks
    /\ k \in DOMAIN tasks
    /\ last_adv' = NoAdv
    /\ UNCHANGED notTx
    /\ UNCHANGED <<sync_mode, synced, seen, all_connections, hist>>
    /\ IF tasks[k].st = "created"
       THEN /\ tasks' = DictPop(tasks, k)
            /\ UNCHANGED <<pending_tx_request, peers_with_tx, tx_fetch_tasks>>
       ELSE TxCleanup(k, tasks[k].tx, peers_with_tx)

(***************************************************************************)
(* FullNode.respond_transaction: the mempool accepts the transaction (it   *)
(* is seen from then on) or rejects it.                                    *)
(***************************************************************************)
full_node_respond_transaction(t, added) ==
    seen' = IF added THEN seen \cup {t} ELSE seen

(***************************************************************************)
(* FullNodeAPI.respond_transaction.  t is std_hash(tx_bytes).              *)
(***************************************************************************)
respond_transaction(peer, t, added) ==
    /\ peer \in all_connections
    /\ pending_tx_request' = DictPop(pending_tx_request, t)
    /\ peers_with_tx' = DictPop(peers_with_tx, t)
    /\ full_node_respond_transaction(t, added)
    /\ hist' = [hist EXCEPT ![t] = Log(@, Resp)]
    /\ last_adv' = NoAdv
    /\ UNCHANGED notTx
    /\ UNCHANGED <<sync_mode, synced, all_connections, tx_fetch_tasks, tasks>>

(***************************************************************************)
(* FullNodeAPI.send_transaction: a wallet hands the transaction in; the    *)
(* bookkeeping of the fetch is not touched.                                *)
(***************************************************************************)
send_transaction(t, added) ==
    /\ full_node_respond_transaction(t, added)
    /\ last_adv' = NoAdv
    /\ UNCHANGED notTx
    /\ UNCHANGED <<sync_mode, synced, all_connections, pending_tx_request, peers_with_tx,
                   tx_fetch_tasks, tasks, hist>>

(***************************************************************************)
(* Environment: the node enters or leaves sync mode, peers connect and     *)
(* disconnect.                                                             *)
(***************************************************************************)
set_sync_state(sm, sy) ==
    /\ <<sm, sy>> # <<sync_mode, synced>>
    /\ sync_mode' = sm
    /\ synced' = sy
    /\ last_adv' = NoAdv
    /\ UNCHANGED notTx
    /\ UNCHANGED <<seen, all_connections, pending_tx_request, peers_with_tx,
                   tx_fetch_tasks, tasks, hist>>

peer_connects(p) ==
    /\ p \notin all_connections
    /\ all_connections' = all_connections \cup {p}
    /\ last_adv' = NoAdv
    /\ UNCHANGED notTx
    /\ UNCHANGED <<sync_mode, synced, seen, pending_tx_request, peers_with_tx,
                   tx_fetch_tasks, tasks, hist>>

peer_disconnects(p) ==
    /\ p \in all_connections
    /\ all_connections' = all_connections \ {p}
    /\ last_adv' = NoAdv
    /\ UNCHANGED notTx
    /\ UNCHANGED <<sync_mode, synced, seen, pending_tx_request, peers_with_tx,
                   tx_fetch_tasks, tasks, hist>>

InitTx ==
    /\ sync_mode = FALSE
    /\ synced = TRUE
    /\ seen = {}
    /\ all_connections = Peers
    /\ pending_tx_request = <<>>
    /\ peers_with_tx = <<>>
    /\ tx_fetch_tasks = {}
    /\ tasks = <<>>
    /\ hist = [t \in TxIds |-> <<>>]
    /\ last_adv = NoAdv

NextTx ==
    \/ \E p \in Peers, t \in TxIds, fe \in BOOLEAN : new_transaction(p, t, fe)
    \/ \E k \in TaskIds : tx_request_and_timeout(k)
    \/ \E k \in TaskIds : cancel_fetch_task(k)
    \/ \E p \in Peers, t \in TxIds, a \in BOOLEAN : respond_transaction(p, t, a)
    \/ \E t \in TxIds, a \in BOOLEAN : send_transaction(t, a)
    \/ \E sm \in BOOLEAN, sy \in BOOLEAN : set_sync_state(sm, sy)
    \/ \E p \in Peers : peer_connects(p)
    \/ \E p \in Peers : peer_disconnects(p)

(***************************************************************************)
(* Claims on the transaction gossip.                                       *)
(***************************************************************************)
LiveTasksFor(t) == {k \in DOMAIN tasks : tasks[k].tx = t}

\* C1: single-flight: for every transaction id, at most one
\* tx_request_and_timeout fetch task is alive in every reachable state.
C1_SingleFlight ==
    \A t \in TxIds : Cardinality(LiveTasksFor(t)) <= 1

\* C2: whenever a fetch task ends, by whatever path, the id of its
\* transaction is in neither pending_tx_request nor peers_with_tx and the
\* task's id is not in tx_fetch_tasks.
C2_CleanupOnEveryExit ==
    [][\A k \in TaskIds :
          (k \in DOMAIN tasks /\ k \notin DOMAIN tasks')
          => /\ tasks[k].tx \notin DOMAIN pending_tx_request'
             /\ tasks[k].tx \notin DOMAIN peers_with_tx'
             /\ k \notin tx_fetch_tasks']_vars

\* C37: pending_tx_request and peers_with_tx hold the same transaction
\* ids, and every id they hold has a live fetch task (so that
\* new_transaction never meets a pending id without a fan-out set, and no
\* marker stays without a task that removes it).
C37_MarkersHaveLiveTasks ==
    /\ DOMAIN pending_tx_request = DOMAIN peers_with_tx
    /\ \A t \in DOMAIN pending_tx_request : LiveTasksFor(t) # {}

\* The fetch of t is in its first round: a request was sent and the task
\* waits in its first sleep(5).
InFirstRound(t) ==
    \E k \in LiveTasksFor(t) : tasks[k].st = "sleeping" /\ tasks[k].counter = 0

\* C3: peer a and then peer b advertise the unseen id t with enough fee, b
\* while the fetch started for a is in its first round: exactly one
\* RequestTransaction was sent, to a; b is in the fan-out set; a is still the
\* pending peer and no second fetch task exists.
C3_SecondAdvertiserJoinsFanOut ==
    \A t \in TxIds, a \in Peers, b \in Peers :
        ( /\ a # b
          /\ Len(hist[t]) = 3
          /\ hist[t][1] = Adv(a)
          /\ hist[t][2].e = "send"
          /\ hist[t][3] = Adv(b)
          /\ InFirstRound(t) )
        => /\ hist[t][2] = Sent(a)
           /\ t \in DOMAIN peers_with_tx /\ b \in peers_with_tx[t]
           /\ t \in DOMAIN pending_tx_request /\ pending_tx_request[t] = a
           /\ Cardinality(LiveTasksFor(t)) = 1

C3_Witness ==
    /\ hist["T"] = <<Adv(1), Sent(1), Adv(2)>>
    /\ InFirstRound("T")
    /\ 2 \in peers_with_tx["T"]

\* C4: a NewTransaction handled while the node is in sync mode or not synced,
\* or for an id the mempool has seen, or with a fee that is not enough,
\* changes neither pending_tx_request nor peers_with_tx, starts no fetch task
\* and causes no RequestTransaction.
Dropped(adv) == sync_mode \/ ~synced \/ adv.tx \in seen \/ ~adv.fee_enough

C4_DroppedAdvertisementHasNoEffect ==
    [][(last_adv' # NoAdv /\ Dropped(last_adv'))
          => UNCHANGED <<pending_tx_request, peers_with_tx, tx_fetch_tasks, tasks, hist>>]_vars

C4_Witness ==
    /\ last_adv # NoAdv
    /\ ~last_adv.fee_enough
    /\ ~sync_mode /\ synced /\ last_adv.tx \notin seen
    /\ pending_tx_request = <<>>

\* The step sends a RequestTransaction for fetch task k.
TxSends(k) ==
    k \in DOMAIN tasks /\ k \in DOMAIN tasks' /\ tasks'[k] # tasks[k]

\* C27: every step of a fetch task ends the task or sends one
\* RequestTransaction and goes to sleep; the request is the first of the task
\* or follows a sleep after which the transaction was not seen, it is at most
\* the tenth, and its peer is the one connected peer popped from
\* peers_with_tx of the task's id in the step.  A task that finds the
\* transaction seen after a sleep ends.
C27_FetchTaskRounds ==
    [][\A k \in TaskIds :
          /\ tx_request_and_timeout(k) => (k \notin DOMAIN tasks' \/ TxSends(k))
          /\ TxSends(k) =>
                LET t == tasks[k].tx
                    popped == (peers_with_tx[t] \ peers_with_tx'[t]) \cap all_connections
                IN  /\ tasks'[k].st = "sleeping"
                    /\ tasks'[k].counter =
                           IF tasks[k].st = "sleeping" THEN tasks[k].counter + 1 ELSE 0
                    /\ tasks'[k].counter < 10
                    /\ ~(tasks[k].st = "sleeping" /\ t \in seen)
                    /\ Cardinality(popped) = 1
                    /\ popped \cap peers_with_tx'[t] = {}
                    /\ hist[t] # Overflow /\ Len(hist[t]) < MaxHist =>
                           \E p \in popped : hist'[t] = Append(hist[t], Sent(p))]_vars

\* A fetch task sleeps after its tenth request.
C27_Witness ==
    \E k \in DOMAIN tasks : tasks[k].st = "sleeping" /\ tasks[k].counter = 9

(***************************************************************************)
(* Signage points.                                                         *)
(*                                                                         *)
(* A RespondSignagePoint carries index_from_challenge, the challenge-chain *)
(* VDF (challenge, output) and the reward-chain VDF.  The challenge-chain  *)
(* output of a signage point is fixed by its challenge and index; the      *)
(* reward-chain VDF depends on the last infusion it is based on.           *)
(***************************************************************************)
SpChallenges == {GENESIS_CHALLENGE, 1}
RcVdfs == {"r1", "r2"}

\* Hashes: of a sub-slot challenge, and of the challenge-chain output of
\* the signage point idx of challenge ch.
ChallengeHash(ch) == <<"challenge", ch, 0>>

CcOutput(ch, idx) == <<"cc_sp", ch, idx>>

SpRequests ==
    [index : 0..MaxIndex, cc_challenge : SpChallenges, rc_vdf : RcVdfs]

SignagePoint(req) ==
    [cc_vdf |-> [challenge |-> req.cc_challenge,
                 output |-> CcOutput(req.cc_challenge, req.index)],
     rc_vdf |-> req.rc_vdf]

NoVdf == [challenge |-> GENESIS_CHALLENGE, output |-> <<"none", 0, 0>>]
NoSp == [cc_vdf |-> NoVdf, rc_vdf |-> "none"]
EmptySp == [cc_vdf |-> NoVdf, rc_vdf |-> "empty"]
NoReq == [index |-> 0, cc_challenge |-> GENESIS_CHALLENGE, rc_vdf |-> "none"]

\* full_node_store.get_signage_point(cc output hash): the stored signage point
\* with that challenge-chain output; an empty SignagePoint for the hash of a
\* known sub-slot (or the genesis challenge); else None.
get_signage_point(h) ==
    IF \E c \in sub_slots : h = ChallengeHash(c) THEN EmptySp
    ELSE IF \E k \in DOMAIN sp_store : sp_store[k].cc_vdf.output = h
         THEN sp_store[CHOOSE k \in DOMAIN sp_store : sp_store[k].cc_vdf.output = h]
         ELSE NoSp

\* full_node_store.have_newer_signage_point: a signage point of strictly
\* greater index is stored for the challenge, or a later challenge is known.
have_newer_signage_point(ch, idx, last_rc) ==
    \/ \E k \in DOMAIN sp_store : k[1] = ch /\ k[2] > idx
    \/ \E c \in sub_slots : c > ch

\* full_node_store.new_signage_point: added or not.  Index 0 is the end of
\* a sub-slot, not a signage point; the sub-slot of the challenge must be
\* known; valid is the outcome of the VDF validation.
SpAdded(sp, idx, valid) ==
    /\ idx > 0
    /\ idx <= MaxIndex
    /\ sp.cc_vdf.challenge \in sub_slots
    /\ valid

new_signage_point(sp, idx, valid) ==
    IF SpAdded(sp, idx, valid)
    THEN DictSet(sp_store, <<sp.cc_vdf.challenge, idx>>, sp)
    ELSE sp_store

AlreadyStoredIgnoringRewardChain(req) ==
    get_signage_point(CcOutput(req.cc_challenge, req.index)) # NoSp

\* existing_sp is not None and existing_sp.rc_vdf == request.reward_chain_vdf
AlreadyStored(req) ==
    LET existing_sp == get_signage_point(CcOutput(req.cc_challenge, req.index))
    IN  existing_sp # NoSp /\ existing_sp.rc_vdf = req.rc_vdf

RspInsertAlwaysPostProcesses(req, valid) ==
    /\ sp_store' = new_signage_point(SignagePoint(req), req.index, valid)
    /\ sp_inserts' = 1 - sp_inserts
    /\ rsp' = [pc |-> "post_processing", req |-> req]
    /\ timelord_lock' = "respond_signage_point"

\* The call of the store's insertion routine and what follows it: on added
\* the handler awaits signage_point_post_processing, holding the lock;
\* otherwise it logs, releases the lock and returns.
RspInsert(req, valid) ==
    /\ sp_store' = new_signage_point(SignagePoint(req), req.index, valid)
    /\ sp_inserts' = 1 - sp_inserts
    /\ IF SpAdded(SignagePoint(req), req.index, valid)
       THEN /\ rsp' = [pc |-> "post_processing", req |-> req]
            /\ timelord_lock' = "respond_signage_point"
       ELSE /\ rsp' = [pc |-> "idle", req |-> req]
            /\ timelord_lock' = "free"

\* The body under the timelord lock, from the acquisition to the first
\* suspension point.  peak_high: peak.height > MAX_SUB_SLOT_BLOCKS, where the
\* handler awaits blockchain.get_sp_and_ip_sub_slots before the insertion.
RspLocked(req, peak_high, valid) ==
    IF \/ have_newer_signage_point(req.cc_challenge, req.index, req.rc_vdf)
       \/ AlreadyStored(req)
    THEN /\ rsp' = [pc |-> "idle", req |-> req]
         /\ timelord_lock' = "free"
         /\ UNCHANGED <<sp_store, sp_inserts>>
    ELSE IF peak_high
    THEN /\ rsp' = [pc |-> "sub_slots_for_peak", req |-> req]
         /\ timelord_lock' = "respond_signage_point"
         /\ UNCHANGED <<sp_store, sp_inserts>>
    ELSE RspInsert(req, valid)

\* FullNodeAPI.respond_signage_point is called.  An uncontended asyncio.Lock
\* is acquired without yielding.
respond_signage_point(req, peak_high, valid) ==
    /\ rsp.pc = "idle"
    /\ UNCHANGED <<sub_slots, ipv, notSp>>
    /\ IF sync_mode
       THEN UNCHANGED <<sp_store, timelord_lock, rsp, sp_inserts>>
       ELSE IF timelord_lock = "free"
       THEN RspLocked(req, peak_high, valid)
       ELSE /\ rsp' = [pc |-> "wait_lock", req |-> req]
            /\ UNCHANGED <<sp_store, timelord_lock, sp_inserts>>

\* FullNodeAPI.new_signage_point_vdf (from a timelord): outside sync mode
\* the fields are repacked into a RespondSignagePoint and handed to
\* respond_signage_point, with no suspension point before it.
new_signage_point_vdf(req, peak_high, valid) ==
    IF sync_mode
    THEN /\ rsp.pc = "idle"
         /\ UNCHANGED vars
    ELSE respond_signage_point(req, peak_high, valid)

\* The call waited for the timelord lock and gets it.
rsp_acquire(peak_high, valid) ==
    /\ rsp.pc = "wait_lock"
    /\ timelord_lock = "free"
    /\ UNCHANGED <<sub_slots, ipv, notSp>>
    /\ RspLocked(rsp.req, peak_high, valid)

\* get_sp_and_ip_sub_slots has returned: the insertion.
rsp_insert(valid) ==
    /\ rsp.pc = "sub_slots_for_peak"
    /\ UNCHANGED <<sub_slots, ipv, notSp>>
    /\ RspInsert(rsp.req, valid)

\* signage_point_post_processing has returned: the lock is released.
rsp_post_processing_done ==
    /\ rsp.pc = "post_processing"
    /\ rsp' = [pc |-> "idle", req |-> NoReq]
    /\ timelord_lock' = "free"
    /\ UNCHANGED <<sub_slots, sp_store, sp_inserts, ipv, notSp>>

\* FullNodeAPI.new_infusion_point_vdf is called: nothing in sync mode, else
\* full_node.new_infusion_point_vdf runs under the timelord lock.
new_infusion_point_vdf ==
    /\ ipv = "idle"
    /\ UNCHANGED <<sub_slots, sp_store, rsp, sp_inserts, notSp>>
    /\ IF sync_mode
       THEN UNCHANGED <<ipv, timelord_lock>>
       ELSE IF timelord_lock = "free"
       THEN ipv' = "locked" /\ timelord_lock' = "new_infusion_point_vdf"
       ELSE ipv' = "wait_lock" /\ UNCHANGED timelord_lock

IpvEntersWithoutLock ==
    /\ ipv = "wait_lock"
    /\ ipv' = "locked"
    /\ timelord_lock' = "new_infusion_point_vdf"
    /\ UNCHANGED <<sub_slots, sp_store, rsp, sp_inserts, notSp>>

ipv_acquire ==
    /\ ipv = "wait_lock"
    /\ timelord_lock = "free"
    /\ ipv' = "locked"
    /\ timelord_lock' = "new_infusion_point_vdf"
    /\ UNCHANGED <<sub_slots, sp_store, rsp, sp_inserts, notSp>>

\* full_node.new_infusion_point_vdf has returned: the lock is released.
ipv_done ==
    /\ ipv = "locked"
    /\ ipv' = "idle"
    /\ timelord_lock' = "free"
    /\ UNCHANGED <<sub_slots, sp_store, rsp, sp_inserts, notSp>>

\* A sub-slot is finished: its challenge becomes known to the store.
finished_sub_slot(ch) ==
    /\ ch \notin sub_slots
    /\ sub_slots' = sub_slots \cup {ch}
    /\ UNCHANGED <<sp_store, timelord_lock, rsp, sp_inserts, ipv, notSp>>

InitSp ==
    /\ sub_slots = {GENESIS_CHALLENGE}
    /\ sp_store = <<>>
    /\ timelord_lock = "free"
    /\ rsp = [pc |-> "idle", req |-> NoReq]
    /\ sp_inserts = 0
    /\ ipv = "idle"

NextSp ==
    \/ \E req \in SpRequests, ph \in BOOLEAN, v \in BOOLEAN : respond_signage_point(req, ph, v)
    \/ \E req \in SpRequests, ph \in BOOLEAN, v \in BOOLEAN : new_signage_point_vdf(req, ph, v)
    \/ \E ph \in BOOLEAN, v \in BOOLEAN : rsp_acquire(ph, v)
    \/ \E v \in BOOLEAN : rsp_insert(v)
    \/ rsp_post_processing_done
    \/ new_infusion_point_vdf
    \/ ipv_acquire
    \/ ipv_done
    \/ \E ch \in SpChallenges : finished_sub_slot(ch)
    \/ \E sm \in BOOLEAN : set_sync_state(sm, synced)

(***************************************************************************)
(* Signage points: properties.                                             *)
(***************************************************************************)
SpKey(req) == <<req.cc_challenge, req.index>>

\* The step is one in which respond_signage_point ran its checks under the
\* lock; the request is then rsp'.req.
RspChecked ==
    /\ rsp' # rsp \/ sp_inserts' # sp_inserts
    /\ rsp.pc \in {"idle", "wait_lock"}
    /\ rsp'.pc # "wait_lock"

RspRejects(req) ==
    \/ have_newer_signage_point(req.cc_challenge, req.index, req.rc_vdf)
    \/ /\ SpKey(req) \in DOMAIN sp_store
       /\ sp_store[SpKey(req)].rc_vdf = req.rc_vdf

\* C5 as stated: once a signage point p1 is stored for a challenge and an
\* index, no signage point p2 of the same challenge and index changes the
\* store (p2 has the challenge and the index of p1, so it is not newer).
C5_StoredSignagePointNeverReplaced ==
    [][sp_store' # sp_store => SpKey(rsp'.req) \notin DOMAIN sp_store]_vars

\* C5, amended: a signage point p2 that arrives when a newer one is known, or
\* when the stored p1 of its challenge and index has the same reward-chain
\* VDF, leaves the store unchanged: the insertion routine is not called and
\* no post-processing starts.  Any other p2, one that differs from the
\* stored p1 in the reward-chain VDF included, goes to the insertion routine
\* (at once, or after the sub-slots of the peak were fetched).
C5_DuplicateOrOlderLeavesStoreUnchanged ==
    [][RspChecked =>
          IF RspRejects(rsp'.req)
          THEN /\ UNCHANGED <<sp_store, sp_inserts>>
               /\ rsp'.pc = "idle"
          ELSE \/ sp_inserts' # sp_inserts
               \/ rsp'.pc = "sub_slots_for_peak"]_vars

\* A duplicate of the stored signage point has been dropped.
C5_Witness ==
    /\ rsp.pc = "idle"
    /\ SpKey(rsp.req) \in DOMAIN sp_store
    /\ sp_store[SpKey(rsp.req)].rc_vdf = rsp.req.rc_vdf
    /\ ~have_newer_signage_point(rsp.req.cc_challenge, rsp.req.index, rsp.req.rc_vdf)

\* C31: signage_point_post_processing starts exactly in the step in which
\* the store's insertion routine is called and adds the signage point; a
\* signage point that arrives when a newer one is known, or when the stored
\* one of its output hash has the same reward-chain VDF, reaches neither the
\* insertion routine nor the post-processing.  The steps of a call that
\* came through new_signage_point_vdf are the same steps.
C31_PostProcessingIffAdded ==
    /\ [][sp_inserts' # sp_inserts =>
            /\ rsp.pc \in {"idle", "wait_lock", "sub_slots_for_peak"}
            /\ rsp'.pc = "post_processing" <=>
                  /\ SpKey(rsp'.req) \in DOMAIN sp_store'
                  /\ sp_store' # sp_store]_vars
    /\ [][(rsp'.pc = "post_processing" /\ rsp.pc # "post_processing") =>
            sp_inserts' # sp_inserts]_vars
    /\ [][(RspChecked /\ RspRejects(rsp'.req)) =>
            /\ sp_inserts' = sp_inserts
            /\ sp_store' = sp_store
            /\ rsp'.pc # "post_processing"]_vars

\* The signage point of the request was added and its post-processing runs.
C31_Witness ==
    /\ rsp.pc = "post_processing"
    /\ SpKey(rsp.req) \in DOMAIN sp_store
    /\ sp_store[SpKey(rsp.req)].rc_vdf = rsp.req.rc_vdf
    /\ timelord_lock = "respond_signage_point"

(***************************************************************************)
(* Sub-slot backfill.                                                      *)
(*                                                                         *)
(* An end-of-slot bundle is named by the hash of its challenge chain       *)
(* (the challenge of the next sub-slot).  The challenge of its             *)
(* end-of-slot VDF is the hash of the sub-slot before it; the honest chain *)
(* is genesis <- 1 <- 2 <- 3.  A bundle is non-empty when the iteration    *)
(* counts of its challenge-chain and reward-chain end-of-slot VDFs differ. *)
(* The reward-chain challenge carried in the requests decides nothing in   *)
(* the handler and is left out.                                            *)
(***************************************************************************)
EosBundles == {1, 2, 3}
BfChallenges == {GENESIS_CHALLENGE} \cup EosBundles
NoResponse == -1
NoChallenge == -1

\* end_of_slot_bundle.challenge_chain.challenge_chain_end_of_slot_vdf.challenge
EosChallenge(b) == b - 1

EosNonEmptyNever(b) == FALSE

\* challenge_chain_end_of_slot_vdf.number_of_iterations
\*     != reward_chain.end_of_slot_vdf.number_of_iterations
EosNonEmpty(b) == b # 3

NewSps ==
    [challenge_hash : BfChallenges, index_from_challenge : 0..MaxIndex,
     prev_challenge_hash : BfChallenges \cup {NoChallenge},
     last_rc_infusion : RcVdfs]

\* The handler returns None.
NoReply == <<NoChallenge, 0, "none">>

\* make_msg(request_signage_point_or_end_of_sub_slot,
\*          RequestSignagePointOrEndOfSubSlot(challenge, index, last_rc))
RequestSpOrEos(ch, idx, last_rc) == <<ch, idx, last_rc>>

NoNewSp ==
    [challenge_hash |-> NoChallenge, index_from_challenge |-> 0,
     prev_challenge_hash |-> NoChallenge, last_rc_infusion |-> "none"]

\* new_sp, reply, calls: the announcement of the last call, if it returned
\* without a backfill, what it returned, and the parity of the number of
\* such calls in a row (observation).  log: what the last call logged when
\* it gave the backfill up.
BfIdle ==
    [pc |-> "idle", to_request |-> NoChallenge, collected |-> <<>>,
     requests |-> 0, non_empty |-> 0, passed |-> {},
     new_sp |-> NoNewSp, reply |-> NoReply, calls |-> 0, log |-> "none"]

\* self.log.debug(...) or self.full_node.log.warning(...); return None
BfGivesUp(message) == [BfIdle EXCEPT !.log = message]

\* The call for new_sp returns the reply at once.
BfReturns(new_sp, reply) ==
    [BfIdle EXCEPT !.new_sp = new_sp, !.reply = reply, !.calls = 1 - bf.calls]

\* full_node_store.get_sub_slot(challenge) is not None
get_sub_slot(ch) == ch \in sub_slots

\* full_node_store.get_signage_point_by_index(...) is not None: the signage
\* point of the index is stored for the challenge, on the reward-chain
\* infusion of the announcement.
get_signage_point_by_index(ch, idx, last_rc) ==
    /\ <<ch, idx>> \in DOMAIN sp_store
    /\ sp_store[<<ch, idx>>].rc_vdf = last_rc

RequestAsAnnounced(new_sp) ==
    RequestSpOrEos(new_sp.challenge_hash, new_sp.index_from_challenge,
                   new_sp.last_rc_infusion)

\* The request the handler returns for an announcement that is neither
\* known nor backfilled: the end of the sub-slot when the sub-slot of a
\* signage point is missing, else what was announced.
RequestFor(new_sp) ==
    IF /\ new_sp.index_from_challenge > 0
       /\ new_sp.challenge_hash # GENESIS_CHALLENGE
       /\ ~get_sub_slot(new_sp.challenge_hash)
    THEN RequestSpOrEos(new_sp.challenge_hash, 0, new_sp.last_rc_infusion)
    ELSE RequestSpOrEos(new_sp.challenge_hash, new_sp.index_from_challenge,
                        new_sp.last_rc_infusion)

LoopGoesOnPastLimit(requests, non_empty) ==
    non_empty < MaxNonEmptySubSlots

\* for _ in range(30): if num_non_empty_sub_slots_seen >= 3: return None
LoopGoesOn(requests, non_empty) ==
    /\ requests < MaxBackfillRequests
    /\ non_empty < MaxNonEmptySubSlots

\* The response is a RespondEndOfSubSlot that reaches a stored sub-slot or
\* the genesis challenge.
Reconverged(b) ==
    \/ get_sub_slot(EosChallenge(b))
    \/ EosChallenge(b) = GENESIS_CHALLENGE

\* FullNodeAPI.new_signage_point_or_end_of_sub_slot is called.  Every path
\* but the backfill returns at once (with a request for the peer or nothing)
\* and leaves the state alone; the backfill sends its first request.
new_signage_point_or_end_of_sub_slot(new_sp) ==
    /\ bf.pc = "idle"
    /\ UNCHANGED <<sub_slots, notBf>>
    /\ IF \/ sync_mode
          \/ get_signage_point_by_index(new_sp.challenge_hash, new_sp.index_from_challenge,
                                        new_sp.last_rc_infusion)
          \/ have_newer_signage_point(new_sp.challenge_hash, new_sp.index_from_challenge,
                                      new_sp.last_rc_infusion)
       THEN bf' = BfReturns(new_sp, NoReply)
       ELSE IF /\ new_sp.index_from_challenge = 0
               /\ new_sp.prev_challenge_hash # NoChallenge
               /\ ~get_sub_slot(new_sp.prev_challenge_hash)
       THEN IF LoopGoesOn(0, 0)
            THEN bf' = [BfIdle EXCEPT !.pc = "await_response",
                                      !.to_request = new_sp.challenge_hash,
                                      !.requests = 1]
            ELSE bf' = BfIdle
       ELSE bf' = BfReturns(new_sp, RequestFor(new_sp))

\* peer.request_signage_point_or_end_of_sub_slot(..., timeout=10) returns:
\* a RespondEndOfSubSlot with bundle resp, or anything else (NoResponse).
bf_response(resp) ==
    /\ bf.pc = "await_response"
    /\ UNCHANGED <<sub_slots, notBf>>
    /\ IF resp = NoResponse
       THEN bf' = BfGivesUp("Invalid response for slot")
       ELSE LET collected_eos == Append(bf.collected, resp)
                num_non_empty == bf.non_empty + (IF EosNonEmpty(resp) THEN 1 ELSE 0)
            IN  IF Reconverged(resp)
                THEN bf' = [bf EXCEPT !.pc = "replay", !.collected = collected_eos]
                ELSE IF LoopGoesOn(bf.requests, num_non_empty)
                THEN bf' = [bf EXCEPT !.collected = collected_eos,
                                      !.non_empty = num_non_empty,
                                      !.to_request = EosChallenge(resp),
                                      !.requests = @ + 1]
                ELSE IF bf.requests < MaxBackfillRequests
                THEN bf' = BfGivesUp("Diverged from peer")
                ELSE bf' = BfGivesUp("Failed to catch up in sub-slots")

\* full_node.respond_end_of_sub_slot: the bundle is stored under its hash
\* when the sub-slot before it is known.
full_node_respond_end_of_sub_slot(b) ==
    IF Reconverged(b) THEN sub_slots \cup {b} ELSE sub_slots

NextEosInCollectionOrder == bf.collected[1]

\* The next bundle of reversed(collected_eos).  During the replay
\* bf.collected is the part of collected_eos the iterator has not yielded
\* yet, and bf.passed the set of bundles it has yielded.
NextEos == bf.collected[Len(bf.collected)]

\* for eos in reversed(collected_eos): await self.respond_end_of_sub_slot(eos, peer)
\* One bundle per step; respond_end_of_sub_slot does nothing in sync mode.
\* After the last bundle the handler returns.
bf_replay ==
    /\ bf.pc = "replay"
    /\ sub_slots' = IF sync_mode THEN sub_slots
                    ELSE full_node_respond_end_of_sub_slot(NextEos)
    /\ bf' = IF Len(bf.collected) = 1
             THEN BfIdle
             ELSE [bf EXCEPT !.collected = SubSeq(@, 1, Len(@) - 1),
                             !.passed = @ \cup {NextEos}]
    /\ UNCHANGED notBf

InitBf == bf = BfIdle

NextBf ==
    \/ \E new_sp \in NewSps : new_signage_point_or_end_of_sub_slot(new_sp)
    \/ \E resp \in EosBundles \cup {NoResponse} : bf_response(resp)
    \/ bf_replay
    \/ \E sm \in BOOLEAN : set_sync_state(sm, synced)

(***************************************************************************)
(* Sub-slot backfill: properties.                                          *)
(***************************************************************************)
\* C6: a call sends at most 30 requests, and a call that is waiting for a
\* response or replaying returns, when every request is answered or times
\* out and every replayed bundle is handled.
C6_BackfillBoundedAndTerminates ==
    /\ [](bf.requests <= MaxBackfillRequests)
    /\ (bf.pc # "idle") ~> (bf.pc = "idle")

\* The 30th request is out.
C6_Witness ==
    /\ bf.pc = "await_response"
    /\ bf.requests = MaxBackfillRequests
    /\ Len(bf.collected) = MaxBackfillRequests - 1

\* C7: a backfill passes no bundle to the end-of-slot handler that it has
\* passed before, and none whose sub-slot is stored already.
C7_NoBundleReplayedTwice ==
    [][bf.pc = "replay" /\ bf' # bf =>
          NextEos \notin bf.passed /\ ~get_sub_slot(NextEos)]_vars

\* C29: a backfill that ends without reconvergence (a third non-empty
\* sub-slot was seen, the response was no RespondEndOfSubSlot, or the 30th
\* request brought no reconvergence) has passed no bundle to the end-of-slot
\* handler, leaves the store as it is, returns no message and sends no
\* further request; the backfill goes on only below these limits and on a
\* response that does not reconverge.
C29_AbortedBackfillDoesNothing ==
    [][(bf.pc = "await_response" /\ bf' # bf) =>
          LET NonEmptySeen(c) == Cardinality({i \in DOMAIN c : c[i] \in {1, 2}})
              Last == bf'.collected[Len(bf'.collected)]
          IN  /\ sub_slots' = sub_slots
              /\ bf.passed = {}
              /\ bf'.pc = "idle" =>
                    /\ bf'.log # "none"
                    /\ bf'.reply = NoReply
                    /\ bf'.requests = 0 /\ bf'.to_request = NoChallenge
                    /\ bf'.collected = <<>> /\ bf'.passed = {}
                    /\ bf'.log = "Diverged from peer" => NonEmptySeen(bf.collected) = 2
                    /\ bf'.log = "Failed to catch up in sub-slots" =>
                          bf.requests = MaxBackfillRequests
              /\ bf'.pc = "await_response" =>
                    /\ bf.requests < MaxBackfillRequests
                    /\ bf'.requests = bf.requests + 1
                    /\ NonEmptySeen(bf'.collected) < MaxNonEmptySubSlots
                    /\ ~(Last - 1 \in sub_slots \/ Last - 1 = GENESIS_CHALLENGE)]_vars

\* A call has given up on the third non-empty sub-slot.
C29_Witness ==
    /\ bf.pc = "idle"
    /\ bf.log = "Diverged from peer"
    /\ bf.reply = NoReply

\* C30: on reconvergence the collected bundles are passed to
\* respond_end_of_sub_slot one by one from the last collected, whose
\* predecessor is stored or the genesis challenge, to the first collected,
\* each handled after the bundle collected after it; after the first
\* collected bundle the call returns without a message.
C30_ReplayInReverseOrder ==
    /\ [](bf.pc = "replay" /\ bf.passed = {} =>
            \/ bf.collected[Len(bf.collected)] - 1 \in sub_slots
            \/ bf.collected[Len(bf.collected)] - 1 = GENESIS_CHALLENGE)
    /\ [][(bf.pc = "await_response" /\ bf'.pc = "replay") =>
            /\ Len(bf'.collected) = Len(bf.collected) + 1
            /\ SubSeq(bf'.collected, 1, Len(bf.collected)) = bf.collected
            /\ bf'.passed = {}]_vars
    /\ [][(bf.pc = "replay" /\ bf' # bf) =>
            LET n == Len(bf.collected)
                handed == bf.collected[n]
            IN  /\ sub_slots' =
                      IF ~sync_mode /\ (handed - 1 \in sub_slots \/ handed - 1 = GENESIS_CHALLENGE)
                      THEN sub_slots \cup {handed} ELSE sub_slots
                /\ n > 1 =>
                      /\ bf'.pc = "replay"
                      /\ bf'.collected = SubSeq(bf.collected, 1, n - 1)
                      /\ bf'.passed = bf.passed \cup {handed}
                /\ n = 1 =>
                      /\ bf'.pc = "idle"
                      /\ bf'.reply = NoReply
                      /\ bf'.log = "none"]_vars

\* The bundles 3, 2 and 1 were collected; 1 and 2 have been handled and
\* stored, 3 is the next.
C30_Witness ==
    /\ bf.pc = "replay"
    /\ bf.collected = <<3>>
    /\ bf.passed = {1, 2}
    /\ {1, 2} \subseteq sub_slots

\* The announcements: a signage point has no previous challenge.
AnnouncedSps ==
    {new_sp \in NewSps :
        new_sp.index_from_challenge > 0 => new_sp.prev_challenge_hash = NoChallenge}

\* The announcements arrive while signage points of the genesis challenge
\* are stored (the timelord lock is free and the peak is low, so that the
\* insertion is part of the call) and sub-slots finish, in and out of sync
\* mode; a backfill that starts gets no response.
NextAnnounce ==
    \/ \E new_sp \in AnnouncedSps : new_signage_point_or_end_of_sub_slot(new_sp)
    \/ bf_response(NoResponse)
    \/ \E req \in SpRequests :
          req.cc_challenge = GENESIS_CHALLENGE /\ respond_signage_point(req, FALSE, TRUE)
    \/ rsp_post_processing_done
    \/ \E ch \in SpChallenges : finished_sub_slot(ch)
    \/ \E sm \in BOOLEAN : set_sync_state(sm, synced)

\* C28: outside sync mode and but for the backfill, an announcement gets no
\* reply when its signage point is stored for its challenge, index and
\* reward-chain infusion or when a newer one is known; else a request for
\* index 0 of its challenge when its index is not 0 and the sub-slot of its
\* challenge, not the genesis challenge, is not stored; else a request for
\* what was announced.  The store stays as it was.
C28_ReplyDecision ==
    [][(/\ bf.pc = "idle" /\ bf' # bf /\ bf'.new_sp # NoNewSp /\ ~sync_mode
        /\ ~(/\ bf'.new_sp.index_from_challenge = 0
              /\ bf'.new_sp.prev_challenge_hash # NoChallenge
              /\ bf'.new_sp.prev_challenge_hash \notin sub_slots)) =>
          LET ch == bf'.new_sp.challenge_hash
              idx == bf'.new_sp.index_from_challenge
              rc == bf'.new_sp.last_rc_infusion
              stored == \E k \in DOMAIN sp_store :
                            k = <<ch, idx>> /\ sp_store[k].rc_vdf = rc
              newer == \/ \E k \in DOMAIN sp_store : k[1] = ch /\ k[2] > idx
                       \/ \E c \in sub_slots : c > ch
          IN  /\ sp_store' = sp_store /\ sub_slots' = sub_slots
              /\ bf'.pc = "idle"
              /\ bf'.reply =
                     IF stored \/ newer THEN NoReply
                     ELSE IF idx > 0 /\ ch # GENESIS_CHALLENGE /\ ch \notin sub_slots
                     THEN <<ch, 0, rc>>
                     ELSE <<ch, idx, rc>>]_vars

\* The signage point 2 of the genesis challenge is stored on one infusion
\* and was announced on another: the reply asks for it.
C28_Witness ==
    /\ bf.pc = "idle"
    /\ bf.reply = <<GENESIS_CHALLENGE, 2, "r2">>
    /\ <<GENESIS_CHALLENGE, 2>> \in DOMAIN sp_store
    /\ sp_store[<<GENESIS_CHALLENGE, 2>>].rc_vdf = "r1"

(***************************************************************************)
(* Candidate blocks.                                                       *)
(*                                                                         *)
(* An unfinished block is told apart by what the handlers look at: a       *)
(* transaction block with a generator, one without, a block that is not a  *)
(* transaction block, and the backup (assembled without generator).  The   *)
(* height stored with a candidate decides nothing here and is left out.    *)
(***************************************************************************)
QualityStrings == {"Q"}
PrimaryBlocks == {"generator", "no_generator", "not_tx"}

\* sp_vdfs.rc_vdf.output.get_hash()
RcOutputHash(rc) == <<"rc_sp", rc, 0>>

DeclareRequests ==
    [challenge_chain_sp : {ChallengeHash(GENESIS_CHALLENGE), CcOutput(GENESIS_CHALLENGE, 1)},
     signage_point_index : {0, 1},
     reward_chain_sp : {RcOutputHash(rc) : rc \in RcVdfs},
     challenge_hash : {GENESIS_CHALLENGE},
     quality_string : QualityStrings]

NoDeclare ==
    [challenge_chain_sp |-> <<"none", 0, 0>>, signage_point_index |-> 0,
     reward_chain_sp |-> <<"none", "none", 0>>,
     challenge_hash |-> GENESIS_CHALLENGE, quality_string |-> ""]

DpsIdle(req) == [pc |-> "idle", req |-> req, block |-> "none"]

\* full_node_store.add_candidate_block / get_candidate_block: one entry per
\* quality string, a lookup leaves it in place.
add_candidate_block(store, q, block) == DictSet(store, q, block)

get_candidate_block(store, q) == IF q \in DOMAIN store THEN store[q] ELSE "none"

StaleSpIgnored(req) == FALSE

\* The signage point named by the request is stored with another
\* reward-chain output than the request's.
StaleSp(req) ==
    LET sp_vdfs == get_signage_point(req.challenge_chain_sp)
    IN  /\ req.signage_point_index > 0
        /\ sp_vdfs \notin {NoSp, EmptySp}
        /\ RcOutputHash(sp_vdfs.rc_vdf) # req.reward_chain_sp

\* What lines 673-698 do with a known signage point besides the stale
\* check: the assertions, and the lookup of the sub-slot of the proof.
DpsFails(req) ==
    LET sp_vdfs == get_signage_point(req.challenge_chain_sp)
        cc_challenge_hash ==
            IF req.signage_point_index = 0 THEN req.challenge_chain_sp
            ELSE ChallengeHash(sp_vdfs.cc_vdf.challenge)
    IN  \/ req.signage_point_index > 0 /\ sp_vdfs = EmptySp
        \/ req.challenge_hash # GENESIS_CHALLENGE
             /\ \A c \in sub_slots : ChallengeHash(c) # cc_challenge_hash
        \/ cc_challenge_hash # ChallengeHash(req.challenge_hash)

\* Assembly, from the peak lookup to the first send: outcome "abandon" is a
\* return without a block (previous block not found, sub-slots that do not
\* fit), else the block that create_unfinished_block builds is stored as the
\* candidate and RequestSignedValues goes out.
DpsAssemble(req, outcome) ==
    IF outcome = "abandon"
    THEN /\ dps' = DpsIdle(NoDeclare)
         /\ timelord_lock' = "free"
         /\ UNCHANGED <<candidate_blocks, rsv_sent>>
    ELSE /\ candidate_blocks' = add_candidate_block(candidate_blocks, req.quality_string, outcome)
         /\ rsv_sent' = 1 - rsv_sent
         /\ dps' = [pc |-> "send_message", req |-> req, block |-> outcome]
         /\ timelord_lock' = "declare_proof_of_space"

\* The body under the timelord lock up to the first suspension point.
\* With a peak the handler awaits the mempool's bundle before assembling;
\* without one no generator is built.
DpsLocked(req, has_peak, outcome) ==
    IF \/ get_signage_point(req.challenge_chain_sp) = NoSp
       \/ StaleSp(req)
       \/ DpsFails(req)
    THEN /\ dps' = DpsIdle(req)
         /\ timelord_lock' = "free"
         /\ UNCHANGED <<candidate_blocks, rsv_sent>>
    ELSE IF has_peak
    THEN /\ dps' = [pc |-> "mempool_bundle", req |-> req, block |-> "none"]
         /\ timelord_lock' = "declare_proof_of_space"
         /\ UNCHANGED <<candidate_blocks, rsv_sent>>
    ELSE DpsAssemble(req, IF outcome = "generator" THEN "no_generator" ELSE outcome)

\* FullNodeAPI.declare_proof_of_space is called.
declare_proof_of_space(req, has_peak, outcome) ==
    /\ dps.pc = "idle"
    /\ UNCHANGED <<candidate_backup_blocks, sv, notCb>>
    /\ IF sync_mode
       THEN UNCHANGED <<candidate_blocks, dps, rsv_sent, timelord_lock>>
       ELSE IF timelord_lock = "free"
       THEN DpsLocked(req, has_peak, outcome)
       ELSE /\ dps' = [pc |-> "wait_lock", req |-> req, block |-> "none"]
            /\ UNCHANGED <<candidate_blocks, rsv_sent, timelord_lock>>

\* The call waited for the timelord lock and gets it.
dps_acquire(has_peak, outcome) ==
    /\ dps.pc = "wait_lock"
    /\ timelord_lock = "free"
    /\ UNCHANGED <<candidate_backup_blocks, sv, notCb>>
    /\ DpsLocked(dps.req, has_peak, outcome)

\* mempool_manager.create_bundle_from_mempool has returned (or raised).
dps_assemble(outcome) ==
    /\ dps.pc = "mempool_bundle"
    /\ UNCHANGED <<candidate_backup_blocks, sv, notCb>>
    /\ DpsAssemble(dps.req, outcome)

HasBackupAlways(block) == TRUE

\* if unfinished_block.is_transaction_block()
\*    and unfinished_block.transactions_generator is not None
HasBackup(block) == block = "generator"

\* After peer.send_message: the backup is stored when the candidate is a
\* transaction block with a generator; not when the send has raised.
\* Either way the lock is released.
DpsSent(ok) ==
    /\ candidate_backup_blocks' =
           IF ok /\ HasBackup(dps.block)
           THEN add_candidate_block(candidate_backup_blocks, dps.req.quality_string, "backup")
           ELSE candidate_backup_blocks
    /\ dps' = DpsIdle(NoDeclare)
    /\ timelord_lock' = "free"
    /\ UNCHANGED <<candidate_blocks, sv, rsv_sent>>

\* peer.send_message has returned, or it has raised.
dps_sent(ok) ==
    /\ dps.pc = "send_message"
    /\ DpsSent(ok)
    /\ UNCHANGED notCb

SvIdle == [pc |-> "idle", quality_string |-> "", candidate |-> "none",
           verified |-> TRUE, outcome |-> "", message |-> "none"]

\* The call has returned.
SvReturns(q, outcome, message) ==
    [SvIdle EXCEPT !.quality_string = q, !.outcome = outcome, !.message = message]

SvSignatureUnchecked(signature_valid) == FALSE

\* if not AugSchemeMPL.verify(...)
SvSignatureRejected(signature_valid) == ~signature_valid

\* FullNodeAPI.signed_values is called: nothing without a candidate, with a
\* wrong signature or without a valid pool signature; else the signed
\* candidate goes to full_node.respond_unfinished_block.  sv.verified is
\* what AugSchemeMPL.verify returned, when it was called.
signed_values(q, signature_valid, pool_sig_valid) ==
    /\ sv.pc = "idle"
    /\ IF get_candidate_block(candidate_blocks, q) = "none"
       THEN sv' = SvReturns(q, "not found", "none")
       ELSE IF SvSignatureRejected(signature_valid)
       THEN sv' = [SvReturns(q, "signature not valid", "none") EXCEPT !.verified = FALSE]
       ELSE IF ~pool_sig_valid
       THEN sv' = [SvReturns(q, "pool signature not valid", "none")
                       EXCEPT !.verified = signature_valid]
       ELSE sv' = [SvIdle EXCEPT !.pc = "respond_unfinished_block", !.quality_string = q,
                                 !.verified = signature_valid,
                                 !.candidate = get_candidate_block(candidate_blocks, q)]
    /\ UNCHANGED <<candidate_blocks, candidate_backup_blocks, dps, rsv_sent,
                   timelord_lock, notCb>>

SvBackupNeverTried(ok, backup) == FALSE

\* except Exception ... if candidate_tuple is not None
SvBackupTried(ok, backup) == ~ok /\ backup # "none"

\* full_node.respond_unfinished_block has returned, or raised: then the
\* backup, if there is one, becomes the candidate and RequestSignedValues is
\* sent with its hashes.
sv_propagated(ok) ==
    /\ sv.pc = "respond_unfinished_block"
    /\ LET backup == get_candidate_block(candidate_backup_blocks, sv.quality_string)
       IN  IF SvBackupTried(ok, backup)
           THEN /\ candidate_blocks' = add_candidate_block(candidate_blocks, sv.quality_string, backup)
                /\ rsv_sent' = 1 - rsv_sent
                /\ sv' = SvReturns(sv.quality_string, "raised", backup)
           ELSE /\ UNCHANGED <<candidate_blocks, rsv_sent>>
                /\ sv' = SvReturns(sv.quality_string, IF ok THEN "propagated" ELSE "raised", "none")
    /\ UNCHANGED <<candidate_backup_blocks, dps, timelord_lock, notCb>>

InitCb ==
    /\ candidate_blocks = <<>>
    /\ candidate_backup_blocks = <<>>
    /\ dps = DpsIdle(NoDeclare)
    /\ sv = SvIdle
    /\ rsv_sent = 0

\* The signage point 1 of the genesis challenge arrives with either
\* reward-chain VDF.
NextCb ==
    \/ \E req \in DeclareRequests, hp \in BOOLEAN, o \in PrimaryBlocks \cup {"abandon"} :
           declare_proof_of_space(req, hp, o)
    \/ \E hp \in BOOLEAN, o \in PrimaryBlocks \cup {"abandon"} : dps_acquire(hp, o)
    \/ \E o \in PrimaryBlocks \cup {"abandon"} : dps_assemble(o)
    \/ \E ok \in BOOLEAN : dps_sent(ok)
    \/ \E q \in QualityStrings, sig \in BOOLEAN, pool \in BOOLEAN : signed_values(q, sig, pool)
    \/ \E ok \in BOOLEAN : sv_propagated(ok)
    \/ \E rc \in RcVdfs :
           respond_signage_point([index |-> 1, cc_challenge |-> GENESIS_CHALLENGE,
                                  rc_vdf |-> rc], FALSE, TRUE)
    \/ rsp_acquire(FALSE, TRUE)
    \/ rsp_post_processing_done
    \/ \E sm \in BOOLEAN : set_sync_state(sm, synced)

(***************************************************************************)
(* Candidate blocks: properties.                                           *)
(***************************************************************************)
\* C8: when a signed_values for Q that found the candidate of a declaration
\* completes, and no declaration is in progress, the store holds no
\* candidate for Q, primary or backup.
C8_SignedValuesLeavesNoCandidate ==
    [][dps.pc = "idle" /\ sv.pc = "respond_unfinished_block" /\ sv'.pc = "idle" =>
          /\ sv.quality_string \notin DOMAIN candidate_blocks'
          /\ sv.quality_string \notin DOMAIN candidate_backup_blocks']_vars

\* The step is one in which declare_proof_of_space ran its checks under the
\* lock; the request is then dps'.req.
DpsChecked ==
    /\ dps' # dps
    /\ dps.pc \in {"idle", "wait_lock"}
    /\ dps'.pc # "wait_lock"
    /\ dps'.req # NoDeclare

SpUnknown(req) == get_signage_point(req.challenge_chain_sp) = NoSp

SpStale(req) ==
    /\ req.signage_point_index > 0
    /\ \E k \in DOMAIN sp_store :
          /\ sp_store[k].cc_vdf.output = req.challenge_chain_sp
          /\ RcOutputHash(sp_store[k].rc_vdf) # req.reward_chain_sp

\* C9: a declare_proof_of_space whose challenge_chain_sp is not in the
\* signage-point store, or whose signage point index is positive while the
\* stored reward-chain output hash is not its reward_chain_sp, returns with
\* the lock released, no RequestSignedValues sent and no candidate stored.
C9_UnknownOrStaleSpIsDropped ==
    [][DpsChecked /\ (SpUnknown(dps'.req) \/ SpStale(dps'.req)) =>
          /\ UNCHANGED <<candidate_blocks, candidate_backup_blocks, rsv_sent>>
          /\ dps'.pc = "idle"
          /\ timelord_lock' = "free"]_vars

\* A declaration for a stored signage point with another reward-chain
\* output has been dropped.
C9_Witness ==
    /\ dps.pc = "idle"
    /\ dps.req # NoDeclare
    /\ SpStale(dps.req)

\* C35: when the request for signed values of a declaration whose block
\* carries a generator has been handed to the peer, the backup for its
\* quality string is stored, so that no signed_values meets the primary
\* without its backup.
C35_BackupStoredBeforeRequest ==
    (dps.pc = "send_message" /\ dps.block = "generator") =>
        dps.req.quality_string \in DOMAIN candidate_backup_blocks

\* C38: a signed_values that found the promoted backup as the candidate
\* of its quality string sends no RequestSignedValues, whatever becomes of
\* its propagation: a declaration has at most two rounds of signing.
C38_AtMostOneResend ==
    [][(sv.pc = "respond_unfinished_block" /\ sv.candidate = "backup" /\ sv'.pc = "idle") =>
          sv'.message = "none"]_vars

(***************************************************************************)
(* Candidate blocks on a chain of block records.                           *)
(*                                                                         *)
(* The block records are a sequence from height 0 (index 1) to the peak;   *)
(* index 0 stands for None (try_block_record of the first block's          *)
(* prev_hash).  A record carries what declare_proof_of_space reads.        *)
(***************************************************************************)
RcChallenges == {"c1", "c2"}
NoHash == "none"
NoTimestamp == -1

BlockRecord(ric, slot, tx, timestamp) ==
    [reward_infusion_new_challenge |-> ric, finished_reward_slot_hash |-> slot,
     is_transaction_block |-> tx, timestamp |-> timestamp]

NotAssembled ==
    [rc_challenge |-> NoHash, found |-> FALSE, examined |-> 0, prev_b |-> 0,
     time |-> NoTimestamp, timestamp |-> NoTimestamp, backup_timestamp |-> NoTimestamp,
     sent |-> "none"]

WalkGoesOnToTheEnd(prev_b, attempts) ==
    prev_b # 0

\* while prev_b is not None and attempts < 10
WalkGoesOn(prev_b, attempts) ==
    prev_b # 0 /\ attempts < MaxWalkAttempts

\* The walk from the peak to the previous block: found, the previous block
\* (0: None) and the number of block records whose fields were compared.
RECURSIVE FindPrevBlock(_, _, _, _)
FindPrevBlock(chain, prev_b, attempts, rc_challenge) ==
    IF ~WalkGoesOn(prev_b, attempts)
    THEN [found |-> FALSE, prev_b |-> prev_b, examined |-> attempts]
    ELSE IF chain[prev_b].reward_infusion_new_challenge = rc_challenge
    THEN [found |-> TRUE, prev_b |-> prev_b, examined |-> attempts + 1]
    ELSE IF chain[prev_b].finished_reward_slot_hash = rc_challenge
    THEN [found |-> TRUE, prev_b |-> prev_b - 1, examined |-> attempts + 1]
    ELSE FindPrevBlock(chain, prev_b - 1, attempts + 1, rc_challenge)

\* while curr is not None and not curr.is_transaction_block and curr.height != 0
RECURSIVE LastTransactionBlock(_, _)
LastTransactionBlock(chain, curr) ==
    IF curr # 0 /\ ~chain[curr].is_transaction_block /\ curr # 1
    THEN LastTransactionBlock(chain, curr - 1)
    ELSE curr

TimestampOfTheClock(chain, prev_b, time) == time

\* timestamp = uint64(int(time.time())), bumped over the timestamp of the
\* last transaction block at or before prev_b.
Timestamp(chain, prev_b, time) ==
    LET curr == LastTransactionBlock(chain, prev_b)
    IN  IF curr # 0 /\ time <= chain[curr].timestamp
        THEN chain[curr].timestamp + 1
        ELSE time

\* The timestamp of the last transaction block of the chain.
PeakTimestamp(chain) ==
    IF chain = <<>> THEN 0
    ELSE chain[LastTransactionBlock(chain, Len(chain))].timestamp

\* A block is added to the chain: the first one is a transaction block, and
\* a transaction block is dt later than the last one before it.
add_block(ric, slot, tx, dt) ==
    /\ Len(blockchain) < MaxChain
    /\ blockchain = <<>> => tx
    /\ blockchain' =
           Append(blockchain,
                  BlockRecord(ric, slot, tx,
                              IF tx THEN PeakTimestamp(blockchain) + dt ELSE NoTimestamp))
    /\ UNCHANGED <<assembled, cbVars, timelord_lock, notDps>>

\* mempool_manager.create_bundle_from_mempool has returned (or raised), with
\* a peak: the walk to the previous block, then (outcome "abandon": the
\* finished sub-slots do not fit) the timestamp and the candidate.
dps_assemble_on_chain(outcome, rc_challenge, time) ==
    /\ dps.pc = "mempool_bundle"
    /\ blockchain # <<>>
    /\ LET walk == FindPrevBlock(blockchain, Len(blockchain), 0, rc_challenge)
           made == walk.found /\ outcome # "abandon"
       IN  /\ DpsAssemble(dps.req, IF walk.found THEN outcome ELSE "abandon")
           /\ assembled' =
                  [rc_challenge |-> rc_challenge, found |-> walk.found,
                   examined |-> walk.examined, prev_b |-> walk.prev_b,
                   time |-> IF made THEN time ELSE NoTimestamp,
                   timestamp |-> IF made THEN Timestamp(blockchain, walk.prev_b, time)
                                 ELSE NoTimestamp,
                   backup_timestamp |-> NoTimestamp, sent |-> "none"]
    /\ UNCHANGED <<candidate_backup_blocks, sv, blockchain, notDps>>

\* peer.send_message has returned, or raised: the backup is assembled with
\* the timestamp of the primary.
dps_sent_on_chain(ok) ==
    /\ dps.pc = "send_message"
    /\ DpsSent(ok)
    /\ assembled' = [assembled EXCEPT !.backup_timestamp =
                        IF ok /\ HasBackup(dps.block) THEN assembled.timestamp
                        ELSE NoTimestamp,
                                      !.sent = IF ok THEN "returned" ELSE "raised"]
    /\ UNCHANGED <<blockchain, notDps>>

InitBc ==
    /\ blockchain = <<>>
    /\ assembled = NotAssembled

\* The end of a sub-slot of the genesis challenge is declared.
DeclareEndOfSlot ==
    [challenge_chain_sp |-> ChallengeHash(GENESIS_CHALLENGE), signage_point_index |-> 0,
     reward_chain_sp |-> RcOutputHash("r1"), challenge_hash |-> GENESIS_CHALLENGE,
     quality_string |-> "Q"]

\* The number of blocks of the chain that match the challenge "c1".
Matching(chain) ==
    Cardinality({i \in DOMAIN chain :
                    \/ chain[i].reward_infusion_new_challenge = "c1"
                    \/ chain[i].finished_reward_slot_hash = "c1"})

\* Declarations for the challenge "c1" on chains of transaction blocks of
\* which at most MaxMatching match it, by the infusion or by a finished
\* slot; the chain grows until the first assembly.
NextPrev ==
    \/ \E b \in {<<"c2", NoHash>>, <<"c1", NoHash>>, <<"c2", "c1">>} :
          /\ assembled = NotAssembled
          /\ b # <<"c2", NoHash>> => Matching(blockchain) < MaxMatching
          /\ add_block(b[1], b[2], TRUE, 1)
    \/ blockchain # <<>> /\ declare_proof_of_space(DeclareEndOfSlot, TRUE, "not_tx")
    \/ \E o \in {"generator", "abandon"} : dps_assemble_on_chain(o, "c1", 0)
    \/ \E ok \in BOOLEAN : dps_sent_on_chain(ok)

NextTs ==
    \/ \E b \in {<<"c1", NoHash>>, <<"c2", "c1">>}, tx \in BOOLEAN :
          /\ assembled = NotAssembled
          /\ Len(blockchain) < MaxTsChain
          /\ add_block(b[1], b[2], tx, 2)
    \/ blockchain # <<>> /\ declare_proof_of_space(DeclareEndOfSlot, TRUE, "not_tx")
    \/ \E o \in PrimaryBlocks \cup {"abandon"}, time \in 0..MaxTime :
          dps_assemble_on_chain(o, "c1", time)
    \/ \E ok \in BOOLEAN : dps_sent_on_chain(ok)

PoolList == <<"A", "B">>
NoValue == 0
TokenTimeout == 1
MinimumDifficulty == 1
FarmerDifficulty == 2
FarmerPoints == 1

\* self.pool_state[p2_singleton_puzzle_hash] = {...}
NewPoolState ==
    [next_farmer_update |-> 0, next_pool_info_update |-> 0,
     current_points |-> 0, current_difficulty |-> NoValue,
     pool_errors_24h |-> 0, authentication_token_timeout |-> NoValue]

Pools == {PoolList[n] : n \in 1..Len(PoolList)}

NoGetFarmer == [p \in Pools |-> "none"]

UpsIdle == [pc |-> "idle", i |-> 0, get_farmer |-> NoGetFarmer]

CurrentPool == PoolList[ups.i]

\* The loop goes on with the next pool of the list, or the run is over.
NextPool ==
    IF ups.i < Len(PoolList)
    THEN [ups EXCEPT !.pc = "pool", !.i = @ + 1]
    ELSE [ups EXCEPT !.pc = "idle", !.i = 0]

HandleFailedPoolResponseSilently(ps) == ps

\* Farmer.handle_failed_pool_response: one entry is appended.
handle_failed_pool_response(ps) ==
    [ps EXCEPT !.pool_errors_24h = @ + 1]

\* The "error_code" in response branches of the helpers: the response is
\* appended.
AppendErrorResponse(ps) ==
    [ps EXCEPT !.pool_errors_24h = @ + 1]

\* The time of the oldest entry after a step of the loop body for the
\* current pool: an entry appended to an empty list has the time of the step.
ErrorTimes ==
    [error_times EXCEPT ![CurrentPool] =
        IF /\ pool_state[CurrentPool].pool_errors_24h = 0
           /\ pool_state'[CurrentPool].pool_errors_24h > 0
        THEN {now} ELSE @]

FarmerRefreshInEveryRun(ps) ==
    IF ps.authentication_token_timeout # NoValue
    THEN [ups EXCEPT !.pc = "get_farmer"]
    ELSE NextPool

\* if time.time() >= pool_state["next_farmer_update"]: GET /farmer when the
\* authentication token timeout is known, a warning and the next pool when
\* it is not.
FarmerRefresh(ps) ==
    IF now >= ps.next_farmer_update /\ ps.authentication_token_timeout # NoValue
    THEN [ups EXCEPT !.pc = "get_farmer"]
    ELSE NextPool

\* The periodic task calls update_pool_state.
update_pool_state ==
    /\ ups.pc = "idle"
    /\ ups' = [pc |-> "pool", i |-> 1, get_farmer |-> NoGetFarmer]
    /\ UNCHANGED <<now, advances, error_times, rpc_last, pool_state, notPool>>

\* The head of the loop body for a pool, from find_authentication_sk to the
\* first request: without the authentication key the pool is skipped; a
\* pool seen for the first time gets its PoolState.
ups_pool(sk_found) ==
    /\ ups.pc = "pool"
    /\ UNCHANGED <<now, advances, error_times, rpc_last, notPool>>
    /\ IF ~sk_found
       THEN ups' = NextPool /\ UNCHANGED pool_state
       ELSE LET ps == IF CurrentPool \in DOMAIN pool_state
                      THEN pool_state[CurrentPool] ELSE NewPoolState
            IN  /\ pool_state' = DictSet(pool_state, CurrentPool, ps)
                /\ ups' = IF now >= ps.next_pool_info_update
                          THEN [ups EXCEPT !.pc = "get_pool_info"]
                          ELSE FarmerRefresh(ps)

\* GET /pool_info has an outcome.
ups_get_pool_info(outcome) ==
    /\ ups.pc = "get_pool_info"
    /\ outcome = "failed" => pool_state[CurrentPool].pool_errors_24h < MaxErrors
    /\ UNCHANGED <<now, advances, rpc_last, notPool>>
    /\ LET ps == pool_state[CurrentPool]
           ps2 == IF outcome = "ok"
                  THEN [ps EXCEPT !.authentication_token_timeout = TokenTimeout,
                                  !.next_pool_info_update = now + UPDATE_POOL_INFO_INTERVAL,
                                  !.current_difficulty =
                                      IF @ = NoValue THEN MinimumDifficulty ELSE @]
                  ELSE IF outcome = "failed"
                  THEN handle_failed_pool_response(ps)
                  ELSE ps
       IN  /\ pool_state' = [pool_state EXCEPT ![CurrentPool] = ps2]
           /\ ups' = FarmerRefresh(ps2)
    /\ error_times' = ErrorTimes

FarmerNextStepPostsOnAnyError(outcome, differs) ==
    CASE outcome = "ok" /\ differs -> [ups EXCEPT !.pc = "put_farmer"]
      [] outcome \in {"farmer_not_known", "error_code"} /\ ups.pc = "get_farmer" ->
             [ups EXCEPT !.pc = "post_farmer"]
      [] OTHER -> NextPool

\* What follows a GET /farmer: PUT /farmer on farmer info with other payout
\* instructions, POST /farmer when the first GET of the refresh answered
\* FARMER_NOT_KNOWN, else the next pool.
FarmerNextStep(outcome, differs) ==
    CASE outcome = "ok" /\ differs -> [ups EXCEPT !.pc = "put_farmer"]
      [] outcome = "farmer_not_known" /\ ups.pc = "get_farmer" ->
             [ups EXCEPT !.pc = "post_farmer"]
      [] OTHER -> NextPool

\* GET /farmer has an outcome (update_pool_farmer_info).  again: it is the
\* one issued after POST /farmer.  differs: the payout instructions of the
\* response are not the local ones, ignoring case.
ups_get_farmer(outcome, differs) ==
    /\ ups.pc \in {"get_farmer", "get_farmer_again"}
    /\ outcome \in {"failed", "farmer_not_known", "error_code"}
           => pool_state[CurrentPool].pool_errors_24h < MaxErrors
    /\ UNCHANGED <<now, advances, rpc_last, notPool>>
    /\ LET ps == pool_state[CurrentPool]
           next == FarmerNextStep(outcome, differs)
       IN  /\ pool_state' = [pool_state EXCEPT ![CurrentPool] =
                  CASE outcome = "ok" ->
                         [ps EXCEPT !.current_difficulty = FarmerDifficulty,
                                    !.current_points = FarmerPoints,
                                    !.next_farmer_update = now + UPDATE_POOL_FARMER_INFO_INTERVAL]
                    [] outcome \in {"farmer_not_known", "error_code"} -> AppendErrorResponse(ps)
                    [] outcome = "failed" -> handle_failed_pool_response(ps)
                    [] outcome = "raises" -> ps]
           /\ ups' = [next EXCEPT !.get_farmer[CurrentPool] = outcome]
    /\ error_times' = ErrorTimes

\* POST /farmer has an outcome: after a response without error code the
\* farmer info is fetched again.
ups_post_farmer(outcome) ==
    /\ ups.pc = "post_farmer"
    /\ outcome # "ok" => pool_state[CurrentPool].pool_errors_24h < MaxErrors
    /\ UNCHANGED <<now, advances, rpc_last, notPool>>
    /\ LET ps == pool_state[CurrentPool]
       IN  CASE outcome = "ok" ->
                  /\ UNCHANGED pool_state
                  /\ ups' = [ups EXCEPT !.pc = "get_farmer_again"]
              [] outcome = "error_code" ->
                  /\ pool_state' = [pool_state EXCEPT ![CurrentPool] = AppendErrorResponse(ps)]
                  /\ ups' = NextPool
              [] outcome = "failed" ->
                  /\ pool_state' = [pool_state EXCEPT ![CurrentPool] = handle_failed_pool_response(ps)]
                  /\ ups' = NextPool
    /\ error_times' = ErrorTimes

\* PUT /farmer has an outcome; what it answers is only logged.
ups_put_farmer(outcome) ==
    /\ ups.pc = "put_farmer"
    /\ outcome # "ok" => pool_state[CurrentPool].pool_errors_24h < MaxErrors
    /\ UNCHANGED <<now, advances, rpc_last, notPool>>
    /\ LET ps == pool_state[CurrentPool]
       IN  pool_state' = [pool_state EXCEPT ![CurrentPool] =
               IF outcome = "ok" THEN ps
               ELSE IF outcome = "error_code" THEN AppendErrorResponse(ps)
               ELSE handle_failed_pool_response(ps)]
    /\ ups' = NextPool
    /\ error_times' = ErrorTimes

ForceBothRefreshes(ps) ==
    [ps EXCEPT !.next_farmer_update = 0, !.next_pool_info_update = 0]

\* The GET /farmer of the pool is made due.
ForceGetFarmer(ps) ==
    [ps EXCEPT !.next_farmer_update = 0]

\* Farmer.set_payout_instructions: the pool with the launcher id gets its
\* payout instructions written to the configuration and its GET /farmer
\* made due; an unknown launcher id is logged.
set_payout_instructions(launcher_id) ==
    /\ pool_state' = IF launcher_id \in DOMAIN pool_state
                     THEN [pool_state EXCEPT ![launcher_id] = ForceGetFarmer(@)]
                     ELSE pool_state
    /\ UNCHANGED <<now, advances, error_times, rpc_last, ups, notPool>>

\* Farmer.generate_login_link: the login link of the pool with the launcher
\* id, if the pool is there and its authentication key is found.
generate_login_link(launcher_id, sk_found) ==
    /\ rpc_last' = IF launcher_id \in DOMAIN pool_state /\ sk_found
                   THEN "login_link" ELSE "no_login_link"
    /\ UNCHANGED <<now, advances, error_times, pool_state, ups, notPool>>

\* Farmer.set_reward_targets: the targets are written to the farmer and to
\* the configuration.
set_reward_targets ==
    /\ rpc_last' = "set_reward_targets"
    /\ UNCHANGED <<now, advances, error_times, pool_state, ups, notPool>>

Day == 24 * UPDATE_POOL_INFO_INTERVAL

TimeSteps == {UPDATE_POOL_FARMER_INFO_INTERVAL, UPDATE_POOL_INFO_INTERVAL}

\* Time passes.
advance_time(d) ==
    /\ advances < MaxAdvances
    /\ advances' = advances + 1
    /\ now' = now + d
    /\ UNCHANGED <<error_times, rpc_last, pool_state, ups, notPool>>

LauncherIds == Pools \cup {"unknown"}

InitPool ==
    /\ now = StartTime
    /\ advances = 0
    /\ error_times = [p \in Pools |-> {}]
    /\ rpc_last = ""
    /\ pool_state = <<>>
    /\ ups = UpsIdle

HttpOutcomes == {"ok", "error_code", "failed"}

\* The steps of the periodic pool-update task.
NextUpdatePoolState ==
    \/ update_pool_state
    \/ \E sk_found \in BOOLEAN : ups_pool(sk_found)
    \/ \E o \in HttpOutcomes : ups_get_pool_info(o)
    \/ \E o \in HttpOutcomes \cup {"farmer_not_known", "raises"}, d \in BOOLEAN :
           ups_get_farmer(o, d)
    \/ \E o \in HttpOutcomes : ups_post_farmer(o)
    \/ \E o \in HttpOutcomes : ups_put_farmer(o)

\* The task, with the clock moving by the farmer interval.
NextPoolRefresh ==
    \/ NextUpdatePoolState
    \/ advance_time(UPDATE_POOL_FARMER_INFO_INTERVAL)

\* The task, with the clock moving by a day.
NextPoolErrors ==
    \/ NextUpdatePoolState
    \/ advance_time(Day)

\* The task with pools whose GET /pool_info answers with or without an
\* error code and whose GET /farmer succeeds, with the local payout
\* instructions, or raises; set_payout_instructions; and the clock moving
\* by either interval.
NextPoolTimers ==
    \/ update_pool_state
    \/ \E sk_found \in BOOLEAN : ups_pool(sk_found)
    \/ \E o \in {"ok", "error_code"} : ups_get_pool_info(o)
    \/ \E o \in {"ok", "raises"} : ups_get_farmer(o, FALSE)
    \/ \E l \in LauncherIds : set_payout_instructions(l)
    \/ \E d \in TimeSteps : advance_time(d)

(***************************************************************************)
(* Pool state refresh: properties.                                         *)
(***************************************************************************)
\* The step is the return of a GET /farmer for pool p with the outcome.
GetFarmerReturns(p, outcome) ==
    /\ ups.pc \in {"get_farmer", "get_farmer_again"}
    /\ CurrentPool = p
    /\ ups' # ups
    /\ ups'.get_farmer[p] = outcome

OtherPoolsUnchanged(p) ==
    /\ DOMAIN pool_state' = DOMAIN pool_state
    /\ \A q \in DOMAIN pool_state : q # p => pool_state'[q] = pool_state[q]

\* C10: a GET /farmer of pool A that fails appends exactly one entry to the
\* pool_errors_24h of A and changes nothing else of A, in particular not
\* next_farmer_update, which is still due; no POST or PUT follows, the other
\* pools are untouched and the loop goes on with the pool after A.  A GET
\* /farmer of pool B that succeeds, whatever happened to the pools before
\* it, sets B's current_difficulty, current_points and next_farmer_update.
C10_FailedPoolDoesNotHinderOthers ==
    [][\A p \in Pools :
          /\ GetFarmerReturns(p, "failed") =>
                /\ pool_state'[p] = [pool_state[p] EXCEPT !.pool_errors_24h = @ + 1]
                /\ now >= pool_state'[p].next_farmer_update
                /\ OtherPoolsUnchanged(p)
                /\ IF ups.i < Len(PoolList)
                   THEN ups'.pc = "pool" /\ ups'.i = ups.i + 1
                   ELSE ups'.pc = "idle"
          /\ GetFarmerReturns(p, "ok") =>
                /\ pool_state'[p].current_difficulty = FarmerDifficulty
                /\ pool_state'[p].current_points = FarmerPoints
                /\ pool_state'[p].next_farmer_update = now + UPDATE_POOL_FARMER_INFO_INTERVAL
                /\ OtherPoolsUnchanged(p)]_vars

\* A run is over in which the GET /farmer of A failed, for the first time,
\* and the one of B succeeded.
C10_Witness ==
    /\ ups.pc = "idle"
    /\ ups.get_farmer["A"] = "failed"
    /\ ups.get_farmer["B"] = "ok"
    /\ pool_state["A"].pool_errors_24h = 1
    /\ pool_state["A"].next_farmer_update = 0
    /\ pool_state["B"].current_difficulty = FarmerDifficulty
    /\ pool_state["B"].current_points = FarmerPoints
    /\ pool_state["B"].next_farmer_update = now + UPDATE_POOL_FARMER_INFO_INTERVAL

\* C25: GET /pool_info is issued for a pool only at or after its
\* next_pool_info_update, which only a successful GET /pool_info for that pool
\* changes, to the time of the response plus 3600; GET /farmer is issued
\* (but for the one that follows POST /farmer) only at or after its
\* next_farmer_update, which only a successful GET /farmer for that pool
\* changes, to the time of the response plus 300, and set_payout_instructions,
\* to 0.  So no timer moves on a failure, with the other timer or with a
\* timer of another pool.
C25_RefreshTimers ==
    [][/\ (ups'.pc = "get_pool_info" /\ ups.pc # "get_pool_info") =>
              now >= pool_state'[PoolList[ups'.i]].next_pool_info_update
       /\ (ups'.pc = "get_farmer" /\ ups.pc # "get_farmer") =>
              now >= pool_state'[PoolList[ups'.i]].next_farmer_update
       /\ \A p \in DOMAIN pool_state :
              /\ pool_state'[p].next_pool_info_update # pool_state[p].next_pool_info_update =>
                     /\ ups_get_pool_info("ok") /\ CurrentPool = p
                     /\ pool_state'[p].next_pool_info_update = now + 3600
                     /\ pool_state'[p].next_farmer_update = pool_state[p].next_farmer_update
              /\ pool_state'[p].next_farmer_update # pool_state[p].next_farmer_update =>
                     /\ pool_state'[p].next_pool_info_update = pool_state[p].next_pool_info_update
                     /\ \/ /\ (\E differs \in BOOLEAN : ups_get_farmer("ok", differs)) /\ CurrentPool = p
                            /\ pool_state'[p].next_farmer_update = now + 300
                        \/ /\ set_payout_instructions(p)
                            /\ pool_state'[p].next_farmer_update = 0
       /\ ups_get_pool_info("ok") =>
              pool_state'[CurrentPool].next_pool_info_update = now + 3600
       /\ (\E differs \in BOOLEAN : ups_get_farmer("ok", differs)) =>
              pool_state'[CurrentPool].next_farmer_update = now + 300]_vars

\* The second GET /farmer of a pool is issued 300 s after its first one
\* succeeded, in a run that issues no GET /pool_info for the pool, the last
\* one having been answered less than 3600 s before.
C25_Witness ==
    /\ ups.pc = "get_farmer"
    /\ now = StartTime + 300
    /\ pool_state[CurrentPool].next_farmer_update = now
    /\ pool_state[CurrentPool].next_pool_info_update = StartTime + 3600

\* C36: within the farmer refresh of a pool, POST /farmer follows only a
\* first GET /farmer that answered FARMER_NOT_KNOWN; GET /farmer is repeated
\* only after a POST /farmer that answered without error; PUT /farmer
\* follows a GET /farmer exactly when it answered with farmer info whose
\* payout instructions are not the local ones, ignoring case; and no
\* request to /farmer is under way for a pool whose
\* authentication_token_timeout is unknown.
C36_FarmerRefreshSteps ==
    /\ [](ups.pc \in {"get_farmer", "get_farmer_again", "post_farmer", "put_farmer"} =>
            pool_state[CurrentPool].authentication_token_timeout # NoValue)
    /\ [][(ups'.pc = "post_farmer" /\ ups.pc # "post_farmer") =>
            /\ ups.pc = "get_farmer"
            /\ ups'.i = ups.i
            /\ ups'.get_farmer[CurrentPool] = "farmer_not_known"]_vars
    /\ [][(ups'.pc = "get_farmer_again" /\ ups.pc # "get_farmer_again") =>
            /\ ups.pc = "post_farmer"
            /\ ups'.i = ups.i
            /\ pool_state' = pool_state]_vars
    /\ [][(ups.pc = "post_farmer" /\ ups' # ups /\ pool_state' # pool_state) =>
            ups'.pc # "get_farmer_again"]_vars
    /\ [][\A o \in HttpOutcomes \cup {"farmer_not_known", "raises"}, d \in BOOLEAN :
            ups_get_farmer(o, d) => (ups'.pc = "put_farmer" <=> (o = "ok" /\ d))]_vars
    /\ [][(ups'.pc = "put_farmer" /\ ups.pc # "put_farmer") =>
            /\ ups.pc \in {"get_farmer", "get_farmer_again"}
            /\ ups'.i = ups.i
            /\ ups'.get_farmer[CurrentPool] = "ok"]_vars

\* The pool did not know the farmer, the POST /farmer went through and the
\* farmer info is asked for again.
C36_Witness ==
    /\ ups.pc = "get_farmer_again"
    /\ ups.get_farmer[CurrentPool] = "farmer_not_known"

\* C18: when the propagation of the signed candidate raises and a backup
\* is stored for the quality string, the backup becomes the candidate and
\* RequestSignedValues is sent with the backup's hashes; when no backup is
\* stored nothing is sent and the stores stay as they are; either way the
\* call returns.
C18_PropagationErrorTriesBackup ==
    [][(sv.pc = "respond_unfinished_block" /\ sv'.outcome = "raised") =>
          LET q == sv.quality_string
              backup == get_candidate_block(candidate_backup_blocks, q)
          IN  /\ sv'.pc = "idle"
              /\ IF backup # "none"
                 THEN /\ get_candidate_block(candidate_blocks', q) = backup
                      /\ sv'.message = backup
                      /\ rsv_sent' # rsv_sent
                 ELSE /\ sv'.message = "none"
                      /\ UNCHANGED <<candidate_blocks, candidate_backup_blocks, rsv_sent>>]_vars

\* The propagation raised and the backup was sent for signing.
C18_Witness ==
    /\ sv.outcome = "raised"
    /\ sv.message = "backup"
    /\ get_candidate_block(candidate_blocks, sv.quality_string) = "backup"

\* The step is a signed_values call that found a candidate and a backup
\* and whose signature did not verify.
SvBadSignature ==
    /\ sv.pc = "idle"
    /\ sv' # sv
    /\ ~sv'.verified
    /\ get_candidate_block(candidate_blocks, sv'.quality_string) # "none"
    /\ get_candidate_block(candidate_backup_blocks, sv'.quality_string) # "none"

\* C19 as stated: a signed_values whose signature does not verify, with a
\* backup stored for the quality string, installs the backup as the
\* candidate and sends RequestSignedValues for it.
C19_BadSignatureTriesBackup ==
    [][SvBadSignature =>
          /\ get_candidate_block(candidate_blocks', sv'.quality_string) = "backup"
          /\ rsv_sent' # rsv_sent]_vars

\* C19: a signed_values whose signature does not verify returns at once,
\* also when a backup is stored: the candidate is not propagated, no
\* RequestSignedValues is sent and both stores stay as they are.
C19_BadSignatureIsIgnored ==
    [][SvBadSignature =>
          /\ sv'.pc = "idle"
          /\ sv'.message = "none"
          /\ UNCHANGED <<candidate_blocks, candidate_backup_blocks, rsv_sent>>]_vars

\* A signature did not verify while a candidate and its backup are stored.
C19_Witness ==
    /\ sv.outcome = "signature not valid"
    /\ get_candidate_block(candidate_blocks, sv.quality_string) = "generator"
    /\ get_candidate_block(candidate_backup_blocks, sv.quality_string) = "backup"

\* C21: when a run of update_pool_state ends, no pool_errors_24h holds an
\* entry that was appended more than 24 hours before.
C21_ErrorsAtMostADayOld ==
    [][(ups.pc # "idle" /\ ups'.pc = "idle") =>
          \A p \in Pools : \A t \in error_times'[p] : now' - t <= Day]_vars

(***************************************************************************)
(* The timelord lock.                                                      *)
(***************************************************************************)
\* The three handlers that take the timelord lock, together.
NextLock ==
    \/ NextCb
    \/ new_infusion_point_vdf
    \/ ipv_acquire
    \/ ipv_done

\* The handlers that are between acquiring and releasing the lock.
InTimelordLock ==
    (IF rsp.pc \in {"sub_slots_for_peak", "post_processing"}
     THEN {"respond_signage_point"} ELSE {})
    \cup (IF ipv = "locked" THEN {"new_infusion_point_vdf"} ELSE {})
    \cup (IF dps.pc \in {"mempool_bundle", "send_message"}
          THEN {"declare_proof_of_space"} ELSE {})

\* C11: at most one of respond_signage_point, new_infusion_point_vdf and
\* declare_proof_of_space is between acquiring and releasing the timelord
\* lock, and the lock is held by exactly that one.
C11_TimelordLockExcludes ==
    /\ Cardinality(InTimelordLock) <= 1
    /\ InTimelordLock = IF timelord_lock = "free" THEN {} ELSE {timelord_lock}

\* One handler is suspended under the lock while the two others wait for it.
C11_Witness ==
    /\ dps.pc = "send_message"
    /\ rsp.pc = "wait_lock"
    /\ ipv = "wait_lock"

(***************************************************************************)
(* Unfinished blocks.                                                      *)
(*                                                                         *)
(* Every request starts a task eventually_clear that sleeps 5 seconds and  *)
(* then un-marks the hash.  Time passes in seconds; a task whose sleep is  *)
(* over runs before the next second passes.                                *)
(***************************************************************************)
UbHashes == {"H1", "H2"}

NoUbCall == [hash |-> "", replied |-> FALSE, n |-> 0]

NewUbIgnoredUnlessStored(h) ==
    \/ sync_mode
    \/ h \in unfinished_blocks

\* The early returns of new_unfinished_block.
NewUbIgnored(h) ==
    \/ sync_mode
    \/ h \in unfinished_blocks
    \/ h \in requesting_unfinished_blocks

\* FullNodeAPI.new_unfinished_block is called: nothing, or the hash is
\* marked, eventually_clear is started and RequestUnfinishedBlock returned.
new_unfinished_block(h) ==
    /\ IF NewUbIgnored(h)
       THEN /\ ub_last' = [hash |-> h, replied |-> FALSE, n |-> 1 - ub_last.n]
            /\ UNCHANGED <<requesting_unfinished_blocks, ub_timers>>
       ELSE /\ requesting_unfinished_blocks' = requesting_unfinished_blocks \cup {h}
            /\ ub_timers' = ub_timers \cup {[hash |-> h, left |-> UnmarkDelay]}
            /\ ub_last' = [hash |-> h, replied |-> TRUE, n |-> 1 - ub_last.n]
    /\ UNCHANGED <<unfinished_blocks, notUb>>

ForgetToUnmark(h) == requesting_unfinished_blocks

\* if block_hash in requesting_unfinished_blocks: remove(block_hash)
Unmark(h) == requesting_unfinished_blocks \ {h}

\* The sleep of an eventually_clear task is over.
eventually_clear(t) ==
    /\ t \in ub_timers
    /\ t.left = 0
    /\ requesting_unfinished_blocks' = Unmark(t.hash)
    /\ ub_timers' = ub_timers \ {t}
    /\ UNCHANGED <<unfinished_blocks, ub_last, notUb>>

\* A second passes for the sleeping tasks.
ub_second ==
    /\ ub_timers # {}
    /\ \A t \in ub_timers : t.left > 0
    /\ ub_timers' = {[t EXCEPT !.left = @ - 1] : t \in ub_timers}
    /\ UNCHANGED <<unfinished_blocks, requesting_unfinished_blocks, ub_last, notUb>>

\* full_node.respond_unfinished_block has stored an unfinished block.
store_unfinished_block(h) ==
    /\ h \notin unfinished_blocks
    /\ unfinished_blocks' = unfinished_blocks \cup {h}
    /\ UNCHANGED <<requesting_unfinished_blocks, ub_timers, ub_last, notUb>>

UbTimers == [hash : UbHashes, left : 0..UnmarkDelay]

InitUb ==
    /\ unfinished_blocks = {}
    /\ requesting_unfinished_blocks = {}
    /\ ub_timers = {}
    /\ ub_last = NoUbCall

NextUb ==
    \/ \E h \in UbHashes : new_unfinished_block(h)
    \/ \E t \in UbTimers : eventually_clear(t)
    \/ ub_second
    \/ \E h \in UbHashes : store_unfinished_block(h)
    \/ \E sm \in BOOLEAN : set_sync_state(sm, synced)

(***************************************************************************)
(* Unfinished blocks: properties.                                          *)
(***************************************************************************)
\* The step is a new_unfinished_block call for h that returns a request.
UbRequested(h) ==
    /\ ub_last'.n # ub_last.n
    /\ ub_last'.hash = h
    /\ ub_last'.replied

\* C12: a RequestUnfinishedBlock for H is returned only outside sync mode,
\* for an H that is not stored and not marked, and it marks H: no second
\* request for H is issued before H is un-marked.
C12_OneRequestWhileMarked ==
    [][\A h \in UbHashes :
          UbRequested(h) =>
              /\ ~sync_mode
              /\ h \notin unfinished_blocks
              /\ h \notin requesting_unfinished_blocks
              /\ h \in requesting_unfinished_blocks']_vars

\* An announcement of a marked hash has been dropped.
C12_Witness ==
    /\ ~sync_mode
    /\ ub_last.hash \in requesting_unfinished_blocks
    /\ ub_last.hash \notin unfinished_blocks
    /\ ~ub_last.replied

\* C13: a hash is marked exactly while its eventually_clear task has at
\* most 5 seconds left to sleep; every marked hash is un-marked, whether or
\* not the block was stored meanwhile; and a call for an unknown, unmarked
\* hash outside sync mode returns a request.
C13_UnmarkedAfterDelay ==
    /\ [](\A h \in UbHashes :
             h \in requesting_unfinished_blocks <=>
                 \E t \in ub_timers : t.hash = h /\ t.left \in 0..UnmarkDelay)
    /\ \A h \in UbHashes :
          (h \in requesting_unfinished_blocks) ~> (h \notin requesting_unfinished_blocks)
    /\ [][\A h \in UbHashes :
             (/\ ub_last'.n # ub_last.n
              /\ ub_last'.hash = h
              /\ ~sync_mode
              /\ h \notin unfinished_blocks
              /\ h \notin requesting_unfinished_blocks) => ub_last'.replied]_vars

\* A hash was requested again after it had been un-marked: its new task has
\* the whole delay to sleep while the task of the other hash is under way.
C13_Witness ==
    /\ requesting_unfinished_blocks = UbHashes
    /\ ub_last.replied
    /\ \E t \in ub_timers : t.hash = ub_last.hash /\ t.left = UnmarkDelay
    /\ \E t \in ub_timers : t.hash # ub_last.hash /\ t.left = 0

(***************************************************************************)
(* Compact VDFs.                                                           *)
(*                                                                         *)
(* A message is either one with the content hash "N" or one of the other   *)
(* messages, whose content hashes all differ; the handlers of each kind    *)
(* are counted.  compact_vdf_sem is an asyncio.Semaphore whose _waiters is *)
(* a deque from construction on: acquire takes the value when it is        *)
(* positive and otherwise appends a future and waits; release adds one to  *)
(* the value and pops futures up to the first pending one, which it wakes; *)
(* a woken handler tests the value again when it runs.  The order of the   *)
(* deque is not kept: a release wakes any pending future and pops any      *)
(* number of the cancelled ones.                                           *)
(***************************************************************************)
CvNames == {"N", "other"}

CvCount(f) == f["N"] + f["other"]

\* len(compact_vdf_sem._waiters)
WaitersLen == CvCount(sem_waiters.live) + sem_waiters.cancelled

\* Handlers suspended in compact_vdf_sem.acquire().
CvWaiting == CvCount(sem_waiters.live) + CvCount(cv_woken)

\* Handlers of messages with this hash between the add and the remove.
CvInFlight(c) == sem_waiters.live[c] + cv_woken[c] + cv_processing[c]

CvShedLate == WaitersLen > MaxCvWaiters + 2

\* if len(self.full_node.compact_vdf_sem._waiters) > 20
CvShed == WaitersLen > MaxCvWaiters

CvDuplicateAdmitted(c) == FALSE

\* if name in self.full_node.compact_vdf_requests
CvDuplicate(c) == c = "N" /\ c \in compact_vdf_requests

\* Semaphore._wake_up_next: the pairs <<_waiters, woken handlers>> it can leave.
WakeUpNext(w, wk) ==
    IF CvCount(w.live) = 0
    THEN {<<[w EXCEPT !.cancelled = 0], wk>>}
    ELSE {<<[live |-> [w.live EXCEPT ![c] = @ - 1], cancelled |-> w.cancelled - k],
            [wk EXCEPT ![c] = @ + 1]>> :
              c \in {d \in CvNames : w.live[d] > 0}, k \in 0..w.cancelled}

\* FullNodeAPI.new_compact_vdf is called and runs up to its first wait.
new_compact_vdf(c) ==
    /\ IF sync_mode \/ CvShed \/ CvDuplicate(c)
       THEN /\ cv_last' = IF sync_mode THEN "sync"
                           ELSE IF CvShed THEN "waiters" ELSE "already requested"
            /\ UNCHANGED <<compact_vdf_requests, sem_value, sem_waiters, cv_processing>>
       ELSE /\ compact_vdf_requests' =
                   IF c = "N" THEN compact_vdf_requests \cup {c} ELSE compact_vdf_requests
            /\ IF sem_value > 0
               THEN /\ sem_value' = sem_value - 1
                    /\ cv_processing' = [cv_processing EXCEPT ![c] = @ + 1]
                    /\ UNCHANGED sem_waiters
               ELSE /\ sem_waiters' = [sem_waiters EXCEPT !.live[c] = @ + 1]
                    /\ UNCHANGED <<sem_value, cv_processing>>
            /\ cv_last' = "admitted"
    /\ UNCHANGED <<cv_woken, notCv>>

\* A woken handler runs: it takes the value, or waits again when another
\* handler has taken it meanwhile.
cv_resume(c) ==
    /\ cv_woken[c] > 0
    /\ cv_woken' = [cv_woken EXCEPT ![c] = @ - 1]
    /\ IF sem_value > 0
       THEN /\ sem_value' = sem_value - 1
            /\ cv_processing' = [cv_processing EXCEPT ![c] = @ + 1]
            /\ UNCHANGED sem_waiters
       ELSE /\ sem_waiters' = [sem_waiters EXCEPT !.live[c] = @ + 1]
            /\ UNCHANGED <<sem_value, cv_processing>>
    /\ UNCHANGED <<compact_vdf_requests, cv_last, notCv>>

\* full_node.new_compact_vdf ends: whether it returns, raises or is
\* cancelled, the finally clause removes the name and the async with
\* statement releases the semaphore.  The event loop runs the ready tasks
\* in order: a woken handler runs before a handler that took the semaphore
\* after the wake-up can end, so at most one handler for each unit of the
\* semaphore is woken and has not run.
cv_done(c) ==
    /\ cv_processing[c] > 0
    /\ CvCount(cv_woken) < CompactVdfSemValue
    /\ cv_processing' = [cv_processing EXCEPT ![c] = @ - 1]
    /\ compact_vdf_requests' = compact_vdf_requests \ {c}
    /\ sem_value' = sem_value + 1
    /\ \E next \in WakeUpNext(sem_waiters, cv_woken) :
           sem_waiters' = next[1] /\ cv_woken' = next[2]
    /\ UNCHANGED <<cv_last, notCv>>

\* The task of a handler is cancelled while its future is pending: the
\* future stays in the deque, cancelled, and CancelledError leaves the
\* handler from the async with statement, outside the try.
cv_cancel_waiting(c) ==
    /\ sem_waiters.live[c] > 0
    /\ sem_waiters' = [live |-> [sem_waiters.live EXCEPT ![c] = @ - 1],
                       cancelled |-> sem_waiters.cancelled + 1]
    /\ UNCHANGED <<compact_vdf_requests, sem_value, cv_woken, cv_processing, cv_last, notCv>>

\* The task of a woken handler is cancelled before it runs: acquire passes
\* the wake-up on when the value is positive, and raises.
cv_cancel_woken(c) ==
    /\ cv_woken[c] > 0
    /\ LET wk == [cv_woken EXCEPT ![c] = @ - 1]
       IN  IF sem_value > 0
           THEN \E next \in WakeUpNext(sem_waiters, wk) :
                    sem_waiters' = next[1] /\ cv_woken' = next[2]
           ELSE cv_woken' = wk /\ UNCHANGED sem_waiters
    /\ UNCHANGED <<compact_vdf_requests, sem_value, cv_processing, cv_last, notCv>>

InitCv ==
    /\ compact_vdf_requests = {}
    /\ sem_value = CompactVdfSemValue
    /\ sem_waiters = [live |-> [c \in CvNames |-> 0], cancelled |-> 0]
    /\ cv_woken = [c \in CvNames |-> 0]
    /\ cv_processing = [c \in CvNames |-> 0]
    /\ cv_last = ""

NextCv ==
    \/ \E c \in CvNames : new_compact_vdf(c)
    \/ \E c \in CvNames : cv_resume(c)
    \/ \E c \in CvNames : cv_done(c)
    \/ \E c \in CvNames : cv_cancel_waiting(c)
    \/ \E c \in CvNames : cv_cancel_woken(c)
    \/ \E sm \in BOOLEAN : set_sync_state(sm, synced)

(***************************************************************************)
(* Compact VDFs: properties.                                               *)
(***************************************************************************)
\* Handlers between the first line of the handler's body and its end.
CvHandlers == CvInFlight("N") + CvInFlight("other")

\* C14: at most one handler of a content hash N is between adding N and
\* removing it, and while N is in the set no step starts a handler that
\* waits for the semaphore or processes a message with hash N.
C14_OneHandlerPerName ==
    /\ [](CvInFlight("N") <= 1)
    /\ [][("N" \in compact_vdf_requests) => (CvInFlight("N")' <= CvInFlight("N"))]_vars

\* A message with hash N was dropped while another handler processes N.
C14_Witness ==
    /\ cv_last = "already requested"
    /\ cv_processing["N"] = 1

\* C15: a name is in compact_vdf_requests only while a handler that added
\* it has not ended.
C15_NameRemovedOnEveryExit ==
    \A c \in compact_vdf_requests : CvInFlight(c) > 0

\* C16 as stated: at most 21 handlers wait on the semaphore.
C16_AtMost21Waiting ==
    CvWaiting <= MaxCvWaiters + 1

\* C16: while the deque of the semaphore holds more than 20 futures no
\* message starts a handler: a handler starts to wait for the first time
\* only when at most 20 futures are queued.
C16_SheddingBoundsWaiters ==
    [][(WaitersLen > MaxCvWaiters) => (CvHandlers' <= CvHandlers)]_vars

\* A message was ignored because 21 handlers wait.
C16_Witness ==
    /\ cv_last = "waiters"
    /\ CvCount(sem_waiters.live) = MaxCvWaiters + 1
    /\ ~sync_mode

(***************************************************************************)
(* End of sub slot.                                                        *)
(*                                                                         *)
(* A bundle comes from a peer (RespondEndOfSubSlot) or from the timelord   *)
(* (NewEndOfSubSlotVDF).  full_node.respond_end_of_sub_slot returns the    *)
(* message for the other peers and whether the bundle was added; a bundle  *)
(* is added when it is valid and the sub-slot before it is known.          *)
(***************************************************************************)
EosIdle == [pc |-> "idle", handler |-> "", bundle |-> NoResponse, added |-> FALSE,
            returned |-> "none"]

\* The second component of what full_node.respond_end_of_sub_slot returns.
EosAdded(b, valid) == valid /\ Reconverged(b)

\* FullNodeAPI.respond_end_of_sub_slot is called: the bundle goes to
\* full_node.respond_end_of_sub_slot and its message is returned.
respond_end_of_sub_slot(b, valid) ==
    /\ eos.pc = "idle"
    /\ IF sync_mode
       THEN /\ eos' = [EosIdle EXCEPT !.handler = "respond_end_of_sub_slot", !.bundle = b]
            /\ UNCHANGED sub_slots
       ELSE /\ sub_slots' = IF valid THEN full_node_respond_end_of_sub_slot(b) ELSE sub_slots
            /\ eos' = [EosIdle EXCEPT !.handler = "respond_end_of_sub_slot", !.bundle = b,
                                      !.added = EosAdded(b, valid),
                                      !.returned = IF EosAdded(b, valid) THEN "msg" ELSE "none"]
    /\ UNCHANGED <<peaks_to_timelord, notEos>>

EosFailureIgnored(added) == FALSE

\* if not added
EosFailed(added) == ~added

\* FullNodeAPI.new_end_of_sub_slot_vdf is called: nothing in sync mode or for
\* a stored bundle; else the bundle goes to
\* full_node.respond_end_of_sub_slot, and when it was not added the peak is
\* sent to the timelord again.
new_end_of_sub_slot_vdf(b, valid) ==
    /\ eos.pc = "idle"
    /\ IF sync_mode \/ get_sub_slot(b)
       THEN /\ eos' = [EosIdle EXCEPT !.handler = "new_end_of_sub_slot_vdf", !.bundle = b]
            /\ UNCHANGED sub_slots
       ELSE /\ sub_slots' = IF valid THEN full_node_respond_end_of_sub_slot(b) ELSE sub_slots
            /\ eos' = [EosIdle EXCEPT !.handler = "new_end_of_sub_slot_vdf", !.bundle = b,
                                      !.added = EosAdded(b, valid),
                                      !.pc = IF EosFailed(EosAdded(b, valid))
                                             THEN "send_peak_to_timelords" ELSE "idle",
                                      !.returned = IF EosFailed(EosAdded(b, valid))
                                                   THEN "none" ELSE "msg"]
    /\ UNCHANGED <<peaks_to_timelord, notEos>>

\* send_peak_to_timelords(peer=peer) has returned; the handler returns None.
eos_peak_sent ==
    /\ eos.pc = "send_peak_to_timelords"
    /\ peaks_to_timelord' = 1 - peaks_to_timelord
    /\ eos' = [eos EXCEPT !.pc = "idle"]
    /\ UNCHANGED <<sub_slots, notEos>>

InitEos ==
    /\ eos = EosIdle
    /\ peaks_to_timelord = 0

NextEndOfSubSlot ==
    \/ \E b \in EosBundles, valid \in BOOLEAN : respond_end_of_sub_slot(b, valid)
    \/ \E b \in EosBundles, valid \in BOOLEAN : new_end_of_sub_slot_vdf(b, valid)
    \/ eos_peak_sent
    \/ \E sm \in BOOLEAN : set_sync_state(sm, synced)

(***************************************************************************)
(* End of sub slot: properties.                                            *)
(***************************************************************************)
\* The step is a call of the handler, outside sync mode, that handed the
\* bundle to full_node.respond_end_of_sub_slot, which did not add it.
EosInsertFails(handler) ==
    /\ eos.pc = "idle"
    /\ eos' # eos
    /\ eos'.handler = handler
    /\ ~sync_mode
    /\ ~(handler = "new_end_of_sub_slot_vdf" /\ get_sub_slot(eos'.bundle))
    /\ ~eos'.added

\* C20 as stated: a RespondEndOfSubSlot whose bundle is not added makes the
\* node send its peak to the timelord again.
C20_FailedRespondResendsPeak ==
    [][EosInsertFails("respond_end_of_sub_slot") =>
          (eos'.pc = "send_peak_to_timelords" \/ peaks_to_timelord' # peaks_to_timelord)]_vars

\* C20: a NewEndOfSubSlotVDF whose bundle is not added makes the node send
\* its peak to the timelord and return nothing; a RespondEndOfSubSlot never
\* makes the node send its peak, added or not.
C20_FailedVdfResendsPeak ==
    /\ [][EosInsertFails("new_end_of_sub_slot_vdf") =>
             /\ eos'.pc = "send_peak_to_timelords"
             /\ eos'.returned = "none"
             /\ sub_slots' = sub_slots]_vars
    /\ [][(peaks_to_timelord' # peaks_to_timelord) =>
             /\ eos.pc = "send_peak_to_timelords"
             /\ eos.handler = "new_end_of_sub_slot_vdf"
             /\ ~eos.added
             /\ eos'.pc = "idle"]_vars

\* The peak went to the timelord after a bundle from the timelord was not
\* added.
C20_Witness ==
    /\ peaks_to_timelord = 1
    /\ eos.pc = "idle"
    /\ eos.handler = "new_end_of_sub_slot_vdf"
    /\ ~eos.added
    /\ ~get_sub_slot(eos.bundle)

(***************************************************************************)
(* The harvester cache of the farmer.                                      *)
(***************************************************************************)
\* The harvesters that connect: <<peer host, peer node id>>.
Harvesters == {<<"h1", "a">>, <<"h1", "b">>}

\* What a harvester answers to RequestPlots (to_json_dict of RespondPlots).
PlotLists == {"P1", "P2"}

NoData == "None"

\* HarvesterCacheEntry.__init__
HarvesterCacheEntry == [data |-> NoData, last_update |-> 0]

\* HarvesterCacheEntry.bump_last_update
bump_last_update(entry) == [entry EXCEPT !.last_update = now]

\* HarvesterCacheEntry.set_data
set_data(entry, data) == bump_last_update([entry EXCEPT !.data = data])

\* HarvesterCacheEntry.needs_update
needs_update(entry) == now - entry.last_update > UPDATE_HARVESTER_CACHE_INTERVAL

expired_at_the_interval(entry) ==
    now - entry.last_update > UPDATE_HARVESTER_CACHE_INTERVAL

\* HarvesterCacheEntry.expired
expired(entry) == now - entry.last_update > UPDATE_HARVESTER_CACHE_INTERVAL * 10

\* The keys of the entries of a cache: <<host, node id>>.
CacheKeys(cache) == {h \in Harvesters : h[1] \in DOMAIN cache /\ h[2] \in DOMAIN cache[h[1]]}

\* The first loop of update_cached_harvesters: the expired entries, and then
\* the hosts left without an entry, are deleted.
RemoveOutdated(cache) ==
    LET kept(host) == {id \in DOMAIN cache[host] : ~expired(cache[host][id])}
        hosts == {host \in DOMAIN cache : kept(host) # {}}
    IN  [host \in hosts |-> [id \in kept(host) |-> cache[host][id]]]

\* Farmer.get_cached_harvesters: the cache after the call; the entry it
\* returns is the one of the connection in that cache.
get_cached_harvesters(cache, c) ==
    LET host_cache == IF c[1] \in DOMAIN cache THEN cache[c[1]] ELSE <<>>
        node_cache == IF c[2] \in DOMAIN host_cache THEN host_cache[c[2]]
                      ELSE HarvesterCacheEntry
    IN  [host \in DOMAIN cache \cup {c[1]} |->
            IF host = c[1]
            THEN [id \in DOMAIN host_cache \cup {c[2]} |->
                     IF id = c[2] THEN node_cache ELSE host_cache[id]]
            ELSE cache[host]]

UchIdle == [pc |-> "idle", conn |-> <<>>, todo |-> {}, updated |-> FALSE, removed |-> {}]

\* The second loop of update_cached_harvesters from one suspension to the
\* next: the connections whose entry needs no update are passed over, the
\* entry of the first that needs one is bumped and its plots are requested.
\* The connections are taken in the order of the server's list, which is any.
UchLoop(cache, todo, updated, removed) ==
    LET due == {c \in todo : needs_update(get_cached_harvesters(cache, c)[c[1]][c[2]])}
    IN  IF due = {}
        THEN /\ harvester_cache' = cache
             /\ uch' = [UchIdle EXCEPT !.updated = updated, !.removed = removed]
        ELSE \E c \in due : \E passed \in SUBSET (todo \ due) :
                LET cached == get_cached_harvesters(cache, c)
                IN  /\ harvester_cache' =
                           [cached EXCEPT ![c[1]][c[2]] = bump_last_update(@)]
                    /\ uch' = [pc |-> "request_plots", conn |-> c,
                               todo |-> todo \ ({c} \cup passed),
                               updated |-> updated, removed |-> removed]

\* Farmer.update_cached_harvesters up to its first request.
update_cached_harvesters ==
    /\ uch.pc = "idle"
    /\ LET cache == RemoveOutdated(harvester_cache)
       IN  UchLoop(cache, harvester_connections, FALSE,
                   CacheKeys(harvester_cache) \ CacheKeys(cache))
    /\ UNCHANGED <<harvester_connections, poolVars, notHc>>

PlotResponses == PlotLists \cup {"None", "invalid"}

\* update_cached_harvesters after request_plots has returned.
uch_response(response) ==
    /\ uch.pc = "request_plots"
    /\ LET c == uch.conn
           entry == harvester_cache[c[1]][c[2]]
           cache == IF response \in PlotLists
                    THEN [harvester_cache EXCEPT ![c[1]][c[2]] = set_data(@, response)]
                    ELSE harvester_cache
           updated == uch.updated \/ (response \in PlotLists /\ entry.data # response)
       IN  UchLoop(cache, uch.todo, updated, uch.removed)
    /\ UNCHANGED <<harvester_connections, poolVars, notHc>>

\* Farmer.get_harvesters: every connected harvester gets an entry; the ones
\* that have data are returned.
get_harvesters ==
    /\ harvester_cache' =
           LET RECURSIVE all(_, _)
               all(cache, cs) ==
                   IF cs = {} THEN cache
                   ELSE LET c == CHOOSE x \in cs : TRUE
                        IN  all(get_cached_harvesters(cache, c), cs \ {c})
           IN  all(harvester_cache, harvester_connections)
    /\ rpc_last' = "get_harvesters"
    /\ UNCHANGED <<harvester_connections, uch, now, advances, error_times,
                   pool_state, ups, notHc>>

\* A harvester connects or its connection closes.
harvester_connects(h) ==
    /\ h \notin harvester_connections
    /\ harvester_connections' = harvester_connections \cup {h}
    /\ UNCHANGED <<harvester_cache, uch, poolVars, notHc>>

harvester_disconnects(h) ==
    /\ h \in harvester_connections
    /\ harvester_connections' = harvester_connections \ {h}
    /\ UNCHANGED <<harvester_cache, uch, poolVars, notHc>>

HarvesterTimeSteps ==
    {1, UPDATE_HARVESTER_CACHE_INTERVAL, UPDATE_HARVESTER_CACHE_INTERVAL * 10}

InitHc ==
    /\ harvester_connections = {}
    /\ harvester_cache = <<>>
    /\ uch = UchIdle

NextHarvesterCache ==
    \/ update_cached_harvesters
    \/ \E response \in PlotResponses : uch_response(response)
    \/ get_harvesters
    \/ \E h \in Harvesters : harvester_connects(h)
    \/ \E h \in Harvesters : harvester_disconnects(h)
    \/ \E d \in HarvesterTimeSteps : advance_time(d)

\* C23: update_cached_harvesters removes, before it queries any harvester,
\* exactly the entries that are more than 600 s old and the hosts left without
\* an entry (a removed entry comes back only as a new entry without data, for
\* the harvester being queried); it queries a harvester whose entry it kept
\* only if that entry is more than 60 s old, and it returns without a query
\* only if no connected harvester has an entry older than that.
C23_HarvesterCacheAges ==
    [][update_cached_harvesters =>
          LET age(h) == now - harvester_cache[h[1]][h[2]].last_update
              kept == CacheKeys(harvester_cache')
              entry(h) == harvester_cache'[h[1]][h[2]]
          IN  /\ \A h \in CacheKeys(harvester_cache) :
                    IF age(h) > 600
                    THEN h \in kept => /\ uch'.conn = h
                                       /\ entry(h) = [data |-> NoData, last_update |-> now]
                    ELSE /\ h \in kept
                         /\ entry(h).data = harvester_cache[h[1]][h[2]].data
                         /\ uch'.conn = h => age(h) > 60
              /\ \A host \in DOMAIN harvester_cache' : DOMAIN harvester_cache'[host] # {}
              /\ uch'.pc = "idle" =>
                    \A h \in harvester_connections :
                        h \in CacheKeys(harvester_cache) /\ age(h) <= 60]_vars

\* A run has removed an entry and kept another, which has data.
C23_Witness ==
    /\ uch.removed # {}
    /\ \E h \in CacheKeys(harvester_cache) : harvester_cache[h[1]][h[2]].data # NoData

(***************************************************************************)
(* The operations of the farmer's RPC interface.                           *)
(***************************************************************************)
NextRpc ==
    \/ NextUpdatePoolState
    \/ \E l \in LauncherIds : set_payout_instructions(l)
    \/ \E l \in LauncherIds : \E sk_found \in BOOLEAN : generate_login_link(l, sk_found)
    \/ set_reward_targets
    \/ get_harvesters
    \/ \E h \in Harvesters : harvester_connects(h)

\* C22 as claimed: a step that is not one of the pool-update task leaves
\* every field of every PoolState as it was.
C22_OnlyTheUpdateTaskWrites ==
    [][ups' = ups => pool_state' = pool_state]_vars

\* C22: the operations that answer an RPC leave every PoolState as it was,
\* but for set_payout_instructions, which sets next_farmer_update of the pool
\* with its launcher id to 0 and nothing else.
C22_RpcWritesOnlyNextFarmerUpdate ==
    [][/\ rpc_last' # rpc_last => pool_state' = pool_state
       /\ (ups' = ups /\ pool_state' # pool_state) =>
              \E l \in DOMAIN pool_state :
                  pool_state' = [pool_state EXCEPT ![l].next_farmer_update = 0]]_vars

\* set_payout_instructions has made due the GET /farmer of a pool whose
\* GET /farmer had succeeded in the run under way, and a reading operation
\* has run.
C22_Witness ==
    /\ rpc_last # ""
    /\ \E p \in DOMAIN pool_state :
          /\ ups.get_farmer[p] = "ok"
          /\ pool_state[p].next_farmer_update = 0

(***************************************************************************)
(* The plot manager of the harvester.                                      *)
(***************************************************************************)
\* The plot directories and the filenames of the plot files; a plot file is
\* <<directory, filename>>.
Dirs == {"d1", "d2"}
Names == {"p"}
Files == Dirs \X Names

\* refresh_parameter.batch_size
BatchSize == 1

NoResult == [processed_files |-> 0, remaining_files |-> 0, loaded_plots |-> 0]

RbIdle == [pc |-> "idle", plot_paths |-> {}, plot_directories |-> {},
           todo |-> {}, open |-> {}, plots_refreshed |-> {}, result |-> NoResult]

\* refresh_batch.plot_removed
plot_removed(test_path, directories) ==
    test_path \notin disk \/ test_path[1] \notin directories

\* The first part of refresh_batch: the filenames whose loaded file is
\* removed lose their entry, the others lose the removed duplicates.
DropRemoved(paths, directories) ==
    LET kept == {n \in DOMAIN paths : ~plot_removed(<<paths[n].loaded, n>>, directories)}
    IN  [n \in kept |->
            [loaded |-> paths[n].loaded,
             duplicates |-> {d \in paths[n].duplicates :
                                ~plot_removed(<<d, n>>, directories)}]]

\* PlotManager._refresh_task when a refresh is due: the plot files of the
\* configured directories are listed once for all the batches.
refresh_task ==
    /\ rb.pc = "idle"
    /\ rb' = [RbIdle EXCEPT !.pc = "refresh",
                            !.plot_paths = {f \in disk : f[1] \in plot_directories},
                            !.plot_directories = plot_directories]
    /\ UNCHANGED <<disk, plot_directories, plots, modified, plot_filename_paths,
                   failed_to_open_filenames, pm_lock, plot_count_last, notPm>>

\* The holder of the lock of the PlotManager while process_file runs on the
\* thread pool: refresh_batch, that entered "with self" before.
HeldForTheScans == "refresh_batch"

\* refresh_batch from "with self" to the start of the thread pool.
refresh_batch ==
    /\ rb.pc = "refresh"
    /\ pm_lock = "free"
    /\ pm_lock' = HeldForTheScans
    /\ plot_filename_paths' = DropRemoved(plot_filename_paths, rb.plot_directories)
    /\ rb' = [rb EXCEPT !.pc = "batch", !.todo = rb.plot_paths, !.open = {},
                        !.plots_refreshed = {}, !.result = NoResult]
    /\ UNCHANGED <<disk, plot_directories, plots, modified, failed_to_open_filenames,
                   plot_count_last, notPm>>

\* process_file up to DiskProver(...): the file is left out, or the loaded
\* plot is kept, or the file is counted and will be opened.  retry_due: the
\* time to retry a file that failed to open has come.
process_file(f, retry_due) ==
    /\ rb.pc = "batch"
    /\ f \in rb.todo
    /\ LET left_out == [rb EXCEPT !.todo = @ \ {f}]
           entry_known == f[2] \in DOMAIN plot_filename_paths
       IN  rb' =
             IF f \notin disk THEN left_out
             ELSE IF f \in failed_to_open_filenames /\ ~retry_due THEN left_out
             ELSE IF f \in plots /\ f \notin modified
                  THEN [left_out EXCEPT !.plots_refreshed = @ \cup {f}]
             ELSE IF entry_known /\ f[1] \in plot_filename_paths[f[2]].duplicates
                  THEN left_out
             ELSE IF rb.result.processed_files >= BatchSize
                  THEN [left_out EXCEPT !.result.remaining_files = @ + 1]
             ELSE [left_out EXCEPT !.result.processed_files = @ + 1,
                                   !.open = @ \cup {f}]
    /\ UNCHANGED <<disk, plot_directories, plots, modified, plot_filename_paths,
                   failed_to_open_filenames, pm_lock, plot_count_last, notPm>>

LoadAlsoDuplicates(paths, f) ==
    [ok |-> TRUE, paths |-> paths]

\* The part of process_file under plot_filename_paths_lock: the first file
\* of a filename becomes its loaded file, any other a duplicate; a filename
\* with duplicates is not loaded.
RecordFilename(paths, f) ==
    LET after == IF f[2] \notin DOMAIN paths
                 THEN DictSet(paths, f[2], [loaded |-> f[1], duplicates |-> {}])
                 ELSE [paths EXCEPT ![f[2]].duplicates = @ \cup {f[1]}]
    IN  [ok |-> after[f[2]].duplicates = {}, paths |-> after]

OpenOutcomes == {"ok", "raises", "rejected"}

\* process_file from DiskProver(...) on.  raises: the file cannot be opened;
\* rejected: it is too small for its size or its keys are not the farmer's.
process_file_open(f, outcome) ==
    /\ rb.pc = "batch"
    /\ f \in rb.open
    /\ LET done == [rb EXCEPT !.open = @ \ {f}]
           recorded == RecordFilename(plot_filename_paths, f)
       IN  CASE outcome = "raises" ->
                  /\ failed_to_open_filenames' = failed_to_open_filenames \cup {f}
                  /\ rb' = done
                  /\ UNCHANGED <<plot_filename_paths, modified>>
             [] outcome = "rejected" ->
                  /\ rb' = done
                  /\ UNCHANGED <<plot_filename_paths, modified, failed_to_open_filenames>>
             [] outcome = "ok" ->
                  /\ plot_filename_paths' = recorded.paths
                  /\ IF recorded.ok
                     THEN /\ rb' = [done EXCEPT !.result.loaded_plots = @ + 1,
                                                !.plots_refreshed = @ \cup {f}]
                          /\ failed_to_open_filenames' = failed_to_open_filenames \ {f}
                          /\ modified' = modified \ {f}
                     ELSE /\ rb' = done
                          /\ UNCHANGED <<modified, failed_to_open_filenames>>
    /\ UNCHANGED <<disk, plot_directories, plots, pm_lock, plot_count_last, notPm>>

\* The end of refresh_batch: the table is replaced and the lock released;
\* _refresh_task runs another batch when files remain.
refresh_batch_end ==
    /\ rb.pc = "batch"
    /\ rb.todo = {} /\ rb.open = {}
    /\ plots' = rb.plots_refreshed
    /\ modified' = modified \cap rb.plots_refreshed
    /\ pm_lock' = "free"
    /\ rb' = IF rb.result.remaining_files = 0
             THEN RbIdle
             ELSE [rb EXCEPT !.pc = "refresh"]
    /\ UNCHANGED <<disk, plot_directories, plot_filename_paths, failed_to_open_filenames,
                   plot_count_last, notPm>>

\* PlotManager.plot_count, called on another thread.
plot_count ==
    /\ pm_lock = "free"
    /\ plot_count_last' = Cardinality(plots)
    /\ UNCHANGED <<disk, plot_directories, plots, modified, plot_filename_paths,
                   failed_to_open_filenames, pm_lock, rb, notPm>>

\* The operations on the plot directories and the plot files.
add_plot_directory(d) ==
    /\ d \notin plot_directories
    /\ plot_directories' = plot_directories \cup {d}
    /\ UNCHANGED <<disk, plots, modified, plot_filename_paths, failed_to_open_filenames,
                   pm_lock, rb, plot_count_last, notPm>>

remove_plot_directory(d) ==
    /\ d \in plot_directories
    /\ plot_directories' = plot_directories \ {d}
    /\ UNCHANGED <<disk, plots, modified, plot_filename_paths, failed_to_open_filenames,
                   pm_lock, rb, plot_count_last, notPm>>

\* A plot file is written to a directory; its st_mtime is the time of writing.
create_plot(f) ==
    /\ f \notin disk
    /\ disk' = disk \cup {f}
    /\ modified' = IF f \in plots THEN modified \cup {f} ELSE modified
    /\ UNCHANGED <<plot_directories, plots, plot_filename_paths, failed_to_open_filenames,
                   pm_lock, rb, plot_count_last, notPm>>

delete_plot(f) ==
    /\ f \in disk
    /\ disk' = disk \ {f}
    /\ modified' = modified \ {f}
    /\ UNCHANGED <<plot_directories, plots, plot_filename_paths, failed_to_open_filenames,
                   pm_lock, rb, plot_count_last, notPm>>

InitPm ==
    /\ disk = {}
    /\ plot_directories = {}
    /\ plots = {}
    /\ modified = {}
    /\ plot_filename_paths = <<>>
    /\ failed_to_open_filenames = {}
    /\ pm_lock = "free"
    /\ rb = RbIdle
    /\ plot_count_last = 0

NextPlotManager ==
    \/ refresh_task
    \/ refresh_batch
    \/ \E f \in Files : \E retry_due \in BOOLEAN : process_file(f, retry_due)
    \/ \E f \in Files : \E outcome \in OpenOutcomes : process_file_open(f, outcome)
    \/ refresh_batch_end
    \/ plot_count
    \/ \E d \in Dirs : add_plot_directory(d)
    \/ \E d \in Dirs : remove_plot_directory(d)
    \/ \E f \in Files : create_plot(f)
    \/ \E f \in Files : delete_plot(f)

\* C24: while a process_file is under way on the thread pool the lock of the
\* PlotManager is not held, so that plot_count can take it.
C24_ScansOutsideTheLock ==
    (rb.pc = "batch" /\ rb.open # {}) => pm_lock = "free"

\* C26: PlotManager.plots never holds two plots of one filename; a file that
\* is opened is counted as processed, and when its filename has an entry for a
\* file loaded from another directory it is not loaded.
C26_OnePlotPerFilename ==
    /\ [](\A f, g \in plots : f[2] = g[2] => f = g)
    /\ [][\A f \in Files :
            /\ (f \in rb'.open /\ f \notin rb.open) =>
                   rb'.result.processed_files = rb.result.processed_files + 1
            /\ (/\ f \in rb.open /\ f \notin rb'.open
                /\ f[2] \in DOMAIN plot_filename_paths
                /\ plot_filename_paths[f[2]].loaded # f[1]) =>
                   /\ f \notin rb'.plots_refreshed
                   /\ rb'.result.loaded_plots = rb.result.loaded_plots]_vars

\* A batch has kept the plot loaded from d1, has counted and opened the file
\* of the same name in d2 and has not loaded it.
C26_Witness ==
    /\ rb.pc = "batch" /\ rb.todo = {} /\ rb.open = {}
    /\ plots = {<<"d1", "p">>}
    /\ rb.plots_refreshed = {<<"d1", "p">>}
    /\ rb.result = [processed_files |-> 1, remaining_files |-> 0, loaded_plots |-> 0]
    /\ plot_filename_paths = [n \in {"p"} |-> [loaded |-> "d1", duplicates |-> {"d2"}]]
    /\ <<"d2", "p">> \in disk /\ "d2" \in plot_directories

(***************************************************************************)
(* Sync mode.                                                              *)
(***************************************************************************)
\* C17: while the node is in sync mode no step of respond_signage_point
\* inserts a signage point, also when the handler was called before sync
\* mode began and went on after it had waited for the timelord lock or for
\* the sub slots of the peak.
C17_NoInsertInSyncMode ==
    [][sync_mode => (sp_store' = sp_store)]_vars

(***************************************************************************)
(* Wallet subscriptions: register_interest_in_puzzle_hash and              *)
(* register_interest_in_coin.  The puzzle-hash handler awaits the hint     *)
(* store once per puzzle hash, so calls interleave between two puzzle      *)
(* hashes; the coin handler registers its whole request without giving up  *)
(* control.                                                                *)
(***************************************************************************)
SubPeers == {"w1", "w2"}
PuzzleHashes == {"h1", "h2"}
CoinIds == {"c1", "c2"}

\* request.puzzle_hashes / request.coin_ids: a list, possibly with repetitions.
Requests(S) == UNION {[1..n -> S] : n \in 0..MaxRequestLen}

PuzzleHashRequests == Requests(PuzzleHashes)
CoinRequests == Requests(CoinIds)

RiphIdle == [pc |-> "idle", todo |-> <<>>]

\* dict.get(k, set())
Entry(d, k) == IF k \in DOMAIN d THEN d[k] ELSE {}

SubscribesAgain(subscriptions, counter, item, p) ==
    counter < MaxSubscriptions

\* The test in front of the three updates.
Subscribes(subscriptions, counter, item, p) ==
    /\ p \notin subscriptions[item]
    /\ counter < MaxSubscriptions

\* One pass of the loop body after the await: the key of the item is created,
\* then the peer is added on both sides and counted if the test passes.
RegisterItem(subscriptions, mine, counter, item, p) ==
    LET keyed == IF item \in DOMAIN subscriptions THEN subscriptions
                 ELSE DictSet(subscriptions, item, {})
    IN IF Subscribes(keyed, counter, item, p)
       THEN [subscriptions |-> DictSet(keyed, item, keyed[item] \cup {p}),
             mine |-> mine \cup {item},
             counter |-> counter + 1]
       ELSE [subscriptions |-> keyed, mine |-> mine, counter |-> counter]

RECURSIVE RegisterAll(_, _, _, _, _)
RegisterAll(subscriptions, mine, counter, items, p) ==
    IF items = <<>>
    THEN [subscriptions |-> subscriptions, mine |-> mine, counter |-> counter]
    ELSE LET r == RegisterItem(subscriptions, mine, counter, Head(items), p)
         IN RegisterAll(r.subscriptions, r.mine, r.counter, Tail(items), p)

\* if peer.peer_node_id not in d: d[peer.peer_node_id] = v
SetDefault(d, k, v) == IF k \in DOMAIN d THEN d ELSE DictSet(d, k, v)

\* The handler up to its first await: the peer's entries are created.
register_interest_in_puzzle_hash(p, request) ==
    /\ riph[p].pc = "idle"
    /\ peer_puzzle_hash' = SetDefault(peer_puzzle_hash, p, {})
    /\ peer_sub_counter' = SetDefault(peer_sub_counter, p, 0)
    /\ riph' = [riph EXCEPT ![p] =
                   IF request = <<>> THEN [pc |-> "get_coin_states", todo |-> <<>>]
                   ELSE [pc |-> "get_coin_ids", todo |-> request]]
    /\ UNCHANGED <<ph_subscriptions, coin_subscriptions, peer_coin_ids, notSub>>

\* hint_store.get_coin_ids has returned: the puzzle hash is registered and the
\* loop goes on to the next await.
riph_get_coin_ids(p) ==
    /\ riph[p].pc = "get_coin_ids"
    /\ LET r == RegisterItem(ph_subscriptions, peer_puzzle_hash[p], peer_sub_counter[p],
                             Head(riph[p].todo), p)
       IN /\ ph_subscriptions' = r.subscriptions
          /\ peer_puzzle_hash' = [peer_puzzle_hash EXCEPT ![p] = r.mine]
          /\ peer_sub_counter' = [peer_sub_counter EXCEPT ![p] = r.counter]
    /\ riph' = [riph EXCEPT ![p] =
                   IF Len(riph[p].todo) = 1 THEN [pc |-> "get_coin_states", todo |-> <<>>]
                   ELSE [pc |-> "get_coin_ids", todo |-> Tail(riph[p].todo)]]
    /\ UNCHANGED <<coin_subscriptions, peer_coin_ids, notSub>>

\* The coin states have been read and the reply is returned.
riph_return(p) ==
    /\ riph[p].pc = "get_coin_states"
    /\ riph' = [riph EXCEPT ![p] = RiphIdle]
    /\ UNCHANGED <<ph_subscriptions, coin_subscriptions, peer_puzzle_hash, peer_coin_ids,
                   peer_sub_counter, notSub>>

\* An await of the handler raises (a store error, a cancellation).
riph_raises(p) ==
    /\ riph[p].pc # "idle"
    /\ riph' = [riph EXCEPT ![p] = RiphIdle]
    /\ UNCHANGED <<ph_subscriptions, coin_subscriptions, peer_puzzle_hash, peer_coin_ids,
                   peer_sub_counter, notSub>>

\* The whole registration runs before the handler's only await.
register_interest_in_coin(p, request) ==
    /\ LET r == RegisterAll(coin_subscriptions, SetDefault(peer_coin_ids, p, {})[p],
                            SetDefault(peer_sub_counter, p, 0)[p], request, p)
       IN /\ coin_subscriptions' = r.subscriptions
          /\ peer_coin_ids' = DictSet(peer_coin_ids, p, r.mine)
          /\ peer_sub_counter' = DictSet(peer_sub_counter, p, r.counter)
    /\ UNCHANGED <<ph_subscriptions, peer_puzzle_hash, riph, notSub>>

InitSub ==
    /\ ph_subscriptions = << >>
    /\ coin_subscriptions = << >>
    /\ peer_puzzle_hash = << >>
    /\ peer_coin_ids = << >>
    /\ peer_sub_counter = << >>
    /\ riph = [p \in SubPeers |-> RiphIdle]

NextSub ==
    \/ \E p \in SubPeers, request \in PuzzleHashRequests :
          register_interest_in_puzzle_hash(p, request)
    \/ \E p \in SubPeers : riph_get_coin_ids(p)
    \/ \E p \in SubPeers : riph_return(p)
    \/ \E p \in SubPeers : riph_raises(p)
    \/ \E p \in SubPeers, request \in CoinRequests :
          register_interest_in_coin(p, request)

subscriptions == <<ph_subscriptions, coin_subscriptions, peer_puzzle_hash, peer_coin_ids,
                   peer_sub_counter>>

\* C39: for every peer the counter is the number of its puzzle hashes plus the
\* number of its coin ids and never exceeds the limit; the peer is in the
\* subscriber set of an item exactly when the item is in the peer's own set;
\* and registering an item the peer is already subscribed to changes none of
\* the five dictionaries.
C39_SubscriptionsConsistent ==
    /\ [](\A p \in SubPeers :
            /\ p \notin DOMAIN peer_sub_counter =>
                   Entry(peer_puzzle_hash, p) = {} /\ Entry(peer_coin_ids, p) = {}
            /\ p \in DOMAIN peer_sub_counter =>
                   /\ peer_sub_counter[p] =
                          Cardinality(Entry(peer_puzzle_hash, p)) + Cardinality(Entry(peer_coin_ids, p))
                   /\ peer_sub_counter[p] <= MaxSubscriptions
            /\ \A h \in PuzzleHashes :
                   p \in Entry(ph_subscriptions, h) <=> h \in Entry(peer_puzzle_hash, p)
            /\ \A c \in CoinIds :
                   p \in Entry(coin_subscriptions, c) <=> c \in Entry(peer_coin_ids, p))
    /\ [][\A p \in SubPeers :
            (/\ riph[p].pc = "get_coin_ids"
             /\ riph'[p] # riph[p]
             /\ p \in Entry(ph_subscriptions, Head(riph[p].todo)))
                => UNCHANGED subscriptions]_vars
    /\ [][\A p \in SubPeers, request \in CoinRequests :
            (/\ subscriptions' # subscriptions
             /\ request # << >>
             /\ \A i \in 1..Len(request) : p \in Entry(coin_subscriptions, request[i]))
                => ~register_interest_in_coin(p, request)]_vars

\* A peer at the limit with subscriptions of both kinds, refused a further
\* puzzle hash (its key exists without the peer), while a registered puzzle
\* hash of the peer is registered again.
C39_Witness ==
    /\ "w1" \in DOMAIN peer_sub_counter
    /\ peer_sub_counter["w1"] = MaxSubscriptions
    /\ Entry(peer_puzzle_hash, "w1") # {}
    /\ Entry(peer_coin_ids, "w1") # {}
    /\ \E h \in DOMAIN ph_subscriptions : "w1" \notin ph_subscriptions[h]
    /\ riph["w1"].pc = "get_coin_ids"
    /\ Head(riph["w1"].todo) \in peer_puzzle_hash["w1"]

(***************************************************************************)
(* Weight proofs: request_proof_of_weight.  pow_creation is a dict, so its *)
(* keys are in insertion order; it is a sequence of (tip, event) pairs     *)
(* here.  An asyncio.Event is an object that outlives its dictionary       *)
(* entry: events holds the flag of every event created, and a call keeps   *)
(* the index of the event it holds.  The node has a weight proof handler.  *)
(***************************************************************************)
PowCalls == {"k1", "k2", "k3"}
Tips == {"a", "b", "c"}
NoTip == "none"
NoEvent == 0

PowIdle == [pc |-> "idle", tip |-> NoTip, event |-> NoEvent]

\* self.full_node.pow_creation[tip], for a cached tip
EventOf(tip) ==
    pow_creation[CHOOSE i \in 1..Len(pow_creation) : pow_creation[i].tip = tip].event

\* The removal of the oldest entries once more than PowCacheLimit tips are cached.
Evicted(cache) ==
    IF Len(cache) > PowCacheLimit
    THEN SubSeq(cache, PowCacheLimit + 1, Len(cache))
    ELSE cache

\* The handler up to its first await.  known is blockchain.contains_block(tip).
\* Event.wait() of an event that is set returns without giving up control.
request_proof_of_weight(k, tip, known) ==
    /\ pow[k].pc = "idle"
    /\ IF ~known
       THEN UNCHANGED vars
       ELSE IF \E i \in 1..Len(pow_creation) : pow_creation[i].tip = tip
       THEN LET event == EventOf(tip)
            IN /\ pow' = [pow EXCEPT ![k] =
                             [pc |-> IF events[event] THEN "get_proof_of_weight" ELSE "wait",
                              tip |-> tip, event |-> event]]
               /\ UNCHANGED <<pow_creation, events, serialized_wp_message_tip, notPow>>
       ELSE /\ Len(events) < MaxEvents
            /\ events' = Append(events, FALSE)
            /\ pow_creation' = Append(pow_creation, [tip |-> tip, event |-> Len(events) + 1])
            /\ pow' = [pow EXCEPT ![k] =
                          [pc |-> "create", tip |-> tip, event |-> Len(events) + 1]]
            /\ UNCHANGED <<serialized_wp_message_tip, notPow>>

\* The event of a waiting call has been set: the call goes on to fetch the
\* proof itself.
pow_wait_returns(k) ==
    /\ pow[k].pc = "wait"
    /\ events[pow[k].event]
    /\ pow' = [pow EXCEPT ![k].pc = "get_proof_of_weight"]
    /\ UNCHANGED <<pow_creation, events, serialized_wp_message_tip, notPow>>

\* get_proof_of_weight has returned wp: the creating call sets its event, the
\* cache is trimmed and the reply is built (or taken from the store).
pow_get_returns(k, wp) ==
    /\ pow[k].pc \in {"create", "get_proof_of_weight"}
    /\ events' = IF pow[k].pc = "create" THEN [events EXCEPT ![pow[k].event] = TRUE]
                 ELSE events
    /\ pow_creation' = Evicted(pow_creation)
    /\ serialized_wp_message_tip' =
           IF wp = "none" THEN serialized_wp_message_tip ELSE pow[k].tip
    /\ pow' = [pow EXCEPT ![k] = PowIdle]
    /\ UNCHANGED notPow

\* get_proof_of_weight raises: the call ends there.
pow_get_raises(k) ==
    /\ pow[k].pc \in {"create", "get_proof_of_weight"}
    /\ pow' = [pow EXCEPT ![k] = PowIdle]
    /\ UNCHANGED <<pow_creation, events, serialized_wp_message_tip, notPow>>

InitPow ==
    /\ pow_creation = << >>
    /\ events = << >>
    /\ serialized_wp_message_tip = NoTip
    /\ pow = [k \in PowCalls |-> PowIdle]

NextPow ==
    \/ \E k \in PowCalls, tip \in Tips, known \in BOOLEAN : request_proof_of_weight(k, tip, known)
    \/ \E k \in PowCalls : pow_wait_returns(k)
    \/ \E k \in PowCalls, wp \in {"wp", "none"} : pow_get_returns(k, wp)
    \/ \E k \in PowCalls : pow_get_raises(k)

\* The call that created the event held by call k is still fetching the proof.
Creating(k) ==
    \E c \in PowCalls : pow[c].pc = "create" /\ pow[c].event = pow[k].event

\* C40: a call that found its tip in pow_creation and waits for the creating
\* call returns eventually once the creating call has finished, whether the
\* creating call returned, raised, or the entry of the tip has been evicted.
C40_WaitingCallsReturn ==
    \A k \in PowCalls :
        (pow[k].pc = "wait" /\ ~Creating(k)) ~> (pow[k].pc = "idle")

(***************************************************************************)
(* Specifications.                                                         *)
(***************************************************************************)
Init ==
    /\ InitTx /\ InitSp /\ InitBf /\ InitCb /\ InitPool /\ InitUb /\ InitCv /\ InitEos
    /\ InitHc /\ InitPm /\ InitBc /\ InitSub /\ InitPow

\* The RPC operations of the farmer beside the pool-update task.
SpecRpc == Init /\ [][NextRpc]_vars

\* The plot manager.
SpecPm == Init /\ [][NextPlotManager]_vars

\* Announcements of signage points and ends of sub-slots.
SpecAnnounce == Init /\ [][NextAnnounce]_vars

SpecPrev == Init /\ [][NextPrev]_vars

SpecTs == Init /\ [][NextTs]_vars

\* The subscriptions of wallets.
SpecSub == Init /\ [][NextSub]_vars

\* Requests for weight proofs.  The event loop runs every call that is ready:
\* a woken waiter goes on, and get_proof_of_weight ends, with a proof, with
\* None or with an exception.
SpecPow ==
    /\ Init /\ [][NextPow]_vars
    /\ \A k \in PowCalls :
          /\ WF_vars(pow_wait_returns(k))
          /\ WF_vars(pow_get_raises(k) \/ \E wp \in {"wp", "none"} : pow_get_returns(k, wp))

\* The harvester cache.
SpecHc == Init /\ [][NextHarvesterCache]_vars

\* Transaction gossip.
Spec == Init /\ [][NextTx]_vars

\* Signage points.
SpecSp == Init /\ [][NextSp]_vars

\* Candidate blocks.
SpecCb == Init /\ [][NextCb]_vars

\* The handlers under the timelord lock.
SpecLock == Init /\ [][NextLock]_vars

\* Unfinished blocks; the sleeping tasks wake up and time passes.
SpecUb ==
    /\ Init
    /\ [][NextUb]_vars
    /\ WF_vars(\E t \in UbTimers : eventually_clear(t))
    /\ WF_vars(ub_second)

\* Compact VDF messages and their handlers.
SpecCv == Init /\ [][NextCv]_vars

\* End-of-sub-slot bundles from peers and from the timelord.
SpecEos == Init /\ [][NextEndOfSubSlot]_vars

\* Pool state refresh over days.
SpecErrors == Init /\ [][NextPoolErrors]_vars

\* Pool state refresh with its timers.
SpecTimers == Init /\ [][NextPoolTimers]_vars

\* Pool state refresh of the farmer.
SpecPool == Init /\ [][NextPoolRefresh]_vars

\* Sub-slot backfill; every request is answered or times out, and the
\* end-of-slot handler returns.
SpecBf ==
    /\ Init
    /\ [][NextBf]_vars
    /\ WF_vars(\E resp \in EosBundles \cup {NoResponse} : bf_response(resp))
    /\ WF_vars(bf_replay)

====
